---- MODULE Spec2Model ----
(***************************************************************************)
(* HTTP/3 server connection (h3/src/server.rs): the accept / control /     *)
(* shutdown state machine of Connection, the completion-notification       *)
(* contract of RequestStream (RequestEnd), as a state machine.             *)
(*                                                                         *)
(* One owning task drives accept() and shutdown(); every surfaced          *)
(* RequestStream is owned by another task, whose operations interleave     *)
(* with the suspension points (.await) of accept().                        *)
(***************************************************************************)
EXTENDS Integers, Sequences, FiniteSets, TLC

\* ------------------------------------------------------------------ bounds
\* Number of request streams the peer opens on the connection.
MaxStreams == 5
\* Number of request streams whose handles are alive at the same time.
MaxLive == 2
\* Number of accepted streams whose leading frame fails with a stream error.
MaxLeaked == 1
\* Number of control frames one control-frame drain finds available.
MaxCtlBatch == 1
\* Streams the transport delivers where the frames read are on record.
MaxControlStreams == 2
\* Events of one kind the transport holds for a WebTransport session.
MaxQueue == 1
\* Longest buffer given to write_all.
MaxLen == 3

\* ------------------------------------------------------- program constants
\* Option::None of sent_closing / recv_closing / last_accepted_stream.
None == -1
\* StreamId::FIRST_REQUEST, the first client-initiated bidirectional stream.
FIRST_REQUEST == 0
\* Distance between two client-initiated bidirectional stream ids.
IdStep == 4
\* Config::max_field_section_size of the scenario.
max_field_section_size == 1000
\* Field-section size of the ":status 431" response head (7 + 3 + 32).
ResponseSize431 == 42

StreamIds == {IdStep * i : i \in 0 .. (MaxStreams - 1)}
\* Sizes of the leading header block the peer sends.
HeaderSizes == {1000, 1200}
\* max_field_section_size the peer advertised: the values the shared
\* connection state can hold when send_response reads it.
PeerMaxSizes == {16, 2000}
\* Sizes of the response heads the application sends.
ResponseSizes == {16, 17}
\* max_requests arguments the application passes to shutdown().
InFlightArgs == {0, 4}
\* Boundaries the peer announces in GOAWAY frames.
GoawayIds == {0, 4}

Handles == {"whole", "send", "recv"}

\* Bytes of the buffers given to write_all, and the errors of the transport.
Bytes == {0, 1}
SendErrors == {"reset", "closed"}

VARIABLES
    ongoing_streams,       \* Connection::ongoing_streams
    request_end,           \* the mpsc channel request_end_send -> request_end_recv
    sent_closing,          \* Connection::sent_closing
    recv_closing,          \* Connection::recv_closing
    last_accepted_stream,  \* Connection::last_accepted_stream
    send_grease_frame,     \* ConnectionInner::send_grease_frame
    closed,                \* code the connection was closed with, or "open"
    goaway_sent,           \* GOAWAY frames written to the control stream
    shutdown_call,         \* <<last accepted id, max_requests>> of the shutdown that set sent_closing
    transport,             \* incoming side of the transport: "open", "ended", "closed"
    next_id,               \* id of the next stream the transport delivers
    st,                    \* per stream: what accept() did with it
    handles,               \* per stream: live RequestStream handles sharing its Arc<RequestEnd>
    fin,                   \* per stream: how the live sending handle has ended the response
    notified,              \* per stream: number of completion notifications sent
    resp,                  \* per stream: outcome of the 431 response attempt, where recorded
    pc,                    \* suspension point of the task driving accept()
    cur,                   \* stream the running (or last) accept() was given
    cancel_size,           \* cancel_size of HeaderTooLong in that accept(), else 0
    ret,                   \* value the last accept() returned
    prev_eoi,              \* the accept() before the one running returned end-of-input, where recorded
    shared_config,         \* SharedState::config: the settings the peer advertised
    config,                \* ConnectionInner::config: the local Config
    ctl_read,              \* control frames the last poll_control found, where recorded
    first_frame,           \* what the last read of a leading frame gave, where recorded
    greased,               \* RequestStreams built with send_grease_frame set, where counted
    response,              \* the last call of send_response and what it did, where recorded
    stream_poll,           \* what inner.poll_accept_request gave the last poll, where recorded
    signalled,             \* what the last step of accept() signalled on its stream, where recorded
    conn_live,             \* the Connection has not been dropped
    logged,                \* error! lines written by Drop for RequestEnd
    panicked,              \* a drop has panicked
    app,                   \* where the task of handle_connection is
    session_id,            \* id of the WebTransport session, once established
    dgram_in,              \* datagrams received and not read: their session ids
    uni_in,                \* incoming unidirectional streams not accepted yet
    bi_in,                 \* incoming bidirectional streams not accepted yet: their kinds
    event,                 \* what the last turn of the session loop was handed
    shared_lock,           \* the RwLock of the shared connection state: its writer, its readers, the acquisitions made by the running WebTransportSession::new
    send_stream            \* a call of SendStream::write_all: its buffer (buf), what the transport took (wire, n of them in the last write, an odd number of writes so far), its result (ret)

connVars == <<ongoing_streams, request_end, sent_closing, recv_closing,
              last_accepted_stream, send_grease_frame, closed, goaway_sent,
              shutdown_call>>
envVars == <<transport, next_id>>
streamVars == <<st, handles, fin, notified, resp>>
taskVars == <<pc, cur, cancel_size, ret, prev_eoi>>
configVars == <<shared_config, config>>
\* What no step of the connection, of a request stream or of the session
\* loop changes.
asideVars == <<configVars, send_stream, shared_lock>>
recordVars == <<asideVars, ctl_read, first_frame, greased, response, stream_poll,
                signalled>>
dropVars == <<conn_live, logged, panicked>>
\* What the steps of accept() and of the request streams leave alone.
sessionVars == <<app, session_id, dgram_in, uni_in, bi_in, event>>
restVars == <<asideVars, dropVars, sessionVars>>
sideVars == <<recordVars, dropVars, sessionVars>>
vars == <<connVars, envVars, streamVars, taskVars, sideVars>>

\* ----------------------------------------------------------------- helpers
Range(s) == {s[i] : i \in 1 .. Len(s)}

RECURSIVE SumOver(_, _)
SumOver(f, S) ==
    IF S = {} THEN 0
    ELSE LET x == CHOOSE y \in S : TRUE IN f[x] + SumOver(f, S \ {x})

\* Result values of accept().
NoRet == [kind |-> "none", id |-> None, code |-> "", actual |-> 0, configured |-> 0]
RetRequest(id) == [NoRet EXCEPT !.kind = "request", !.id = id]
RetEoi == [NoRet EXCEPT !.kind = "eoi"]
RetConnErr(code) == [NoRet EXCEPT !.kind = "err_conn", !.code = code]
RetStreamErr(id, code) == [NoRet EXCEPT !.kind = "err_stream", !.id = id, !.code = code]
RetOtherErr(code) == [NoRet EXCEPT !.kind = "err_other", !.code = code]
\* Error::header_too_big(actual, configured)
RetTooBig(id, actual, configured) ==
    [NoRet EXCEPT !.kind = "err_toobig", !.id = id, !.actual = actual,
                  !.configured = configured]

\* Streams admitted by poll_accept_request (inserted into ongoing_streams).
Admitted == {id \in StreamIds : st[id] \notin {"idle", "rejected"}}
\* Streams accept() returned to the caller together with a request.
Surfaced == {id \in StreamIds : st[id] = "surfaced"}
\* Streams reset after a stream error on their leading frame.
Leaked == {id \in StreamIds : st[id] = "leaked"}
\* Streams with a live handle.
Live == {id \in StreamIds : handles[id] # {}}

\* Nothing handed to the session loop.
NoEvent == [src |-> "none", id |-> None]

\* The lock of the shared state, held by no one.
Unlocked == [writer |-> "none", readers |-> {}, acq |-> 0]

\* No call of write_all yet.
NoWrite ==
    [buf |-> <<>>, wire |-> <<>>, src |-> <<>>, ret |-> "idle", n |-> None, odd |-> FALSE]

\* No leading frame on record.
NoFrame == [k |-> "none", size |-> 0, dec |-> "ok", parse |-> "ok"]

\* No call of send_response on record.
NoResponse ==
    [id |-> None, mem_size |-> 0, max_mem_size |-> 0, res |-> "none", actual |-> 0,
     configured |-> 0, writes |-> 0]

\* The peer's settings as SharedState::config records them.
PeerConfigs == [enable_webtransport : BOOLEAN, enable_datagram : BOOLEAN]

\* The local Config, as far as WebTransport reads it.
Configs == [enable_webtransport : BOOLEAN, enable_datagram : BOOLEAN,
            enable_connect : BOOLEAN]

\* Config::default()
DefaultConfig ==
    [enable_webtransport |-> FALSE, enable_datagram |-> FALSE, enable_connect |-> FALSE]

\* A Connection as Builder::build returns it.
InitConnection ==
    /\ ongoing_streams = {}
    /\ request_end = <<>>
    /\ sent_closing = None
    /\ recv_closing = None
    /\ last_accepted_stream = None
    /\ send_grease_frame = TRUE
    /\ closed = "open"
    /\ goaway_sent = <<>>
    /\ shutdown_call = <<>>
    /\ transport = "open"
    /\ next_id = FIRST_REQUEST
    /\ st = [id \in StreamIds |-> "idle"]
    /\ handles = [id \in StreamIds |-> {}]
    /\ fin = [id \in StreamIds |-> "none"]
    /\ notified = [id \in StreamIds |-> 0]
    /\ resp = [id \in StreamIds |-> "none"]
    /\ pc = "idle"
    /\ cur = None
    /\ cancel_size = 0
    /\ ret = NoRet
    /\ prev_eoi = FALSE
    /\ ctl_read = <<>>
    /\ first_frame = NoFrame
    /\ greased = 0
    /\ response = NoResponse
    /\ stream_poll = "unpolled"
    /\ signalled = {}
    /\ conn_live = TRUE /\ logged = 0 /\ panicked = FALSE
    /\ app = "accepting" /\ session_id = None
    /\ dgram_in = <<>> /\ uni_in = 0 /\ bi_in = <<>> /\ event = NoEvent
    /\ send_stream = NoWrite
    /\ shared_lock = Unlocked

\* A server with the default Config and a peer that advertised neither
\* WebTransport nor datagrams.
Init ==
    /\ InitConnection
    /\ shared_config = [enable_webtransport |-> FALSE, enable_datagram |-> FALSE]
    /\ config = DefaultConfig

\* ------------------------------------------------- ConnectionInner (inner)
\* ConnectionInner::close(code, reason): the connection is closed with `code`
\* and the transport delivers nothing more.
InnerClose(code) ==
    /\ closed' = code
    /\ transport' = "closed"

\* Faulty variant of ShutdownMaxId: the boundary counts one stream more than
\* asked for.
ShutdownMaxIdNext(last, max_requests) ==
    IF last = None THEN FIRST_REQUEST ELSE last + max_requests + IdStep

\* StreamId + usize, and the boundary shutdown(max_requests) announces.
ShutdownMaxId(last, max_requests) ==
    IF last = None THEN FIRST_REQUEST ELSE last + max_requests

\* Faulty variant of InnerShutdown: every call overwrites sent_closing.
InnerShutdownAgain(max_id, max_requests, wrote) ==
    /\ sent_closing' = max_id
    /\ goaway_sent' = IF wrote THEN Append(goaway_sent, max_id) ELSE goaway_sent
    /\ transport' = IF wrote THEN transport ELSE "closed"
    /\ shutdown_call' = <<last_accepted_stream, max_requests>>

\* ConnectionInner::shutdown(&mut sent_closing, max_id): sent_closing is set
\* once and then fixed; the GOAWAY frame is written to the control stream
\* when it is set. The write fails (wrote = FALSE) only when the transport
\* has failed, and then the transport delivers nothing more.
InnerShutdown(max_id, max_requests, wrote) ==
    IF sent_closing # None
    THEN UNCHANGED <<sent_closing, goaway_sent, shutdown_call, transport>>
    ELSE /\ sent_closing' = max_id
         /\ goaway_sent' = IF wrote THEN Append(goaway_sent, max_id) ELSE goaway_sent
         /\ transport' = IF wrote THEN transport ELSE "closed"
         /\ shutdown_call' = <<last_accepted_stream, max_requests>>

\* Whether a write to the control stream can succeed: never once the
\* transport has failed.
WriteOutcomes == IF transport = "closed" THEN {FALSE} ELSE BOOLEAN

\* The outcomes of the write InnerShutdown makes: once sent_closing is set it
\* writes nothing, so nothing can fail.
ShutdownWrites == IF sent_closing # None THEN {TRUE} ELSE WriteOutcomes

\* Whether InnerShutdown returns Ok: only a failed write makes it fail.
ShutdownOk(wrote) == sent_closing # None \/ wrote

\* Faulty variant of ProcessGoaway: every boundary is recorded.
ProcessGoawayAny(rc, id) == [recv |-> id, err |-> "none"]

\* ConnectionInner::process_goaway(&mut recv_closing, id): a boundary greater
\* than a previous one is a connection error, otherwise it is recorded.
ProcessGoaway(rc, id) ==
    IF rc # None /\ id > rc
    THEN [recv |-> rc, err |-> "H3_ID_ERROR"]
    ELSE [recv |-> id, err |-> "none"]

\* Frames the peer can put on the control stream.
CtlFrames ==
    {[type |-> t, id |-> None] :
        t \in {"settings", "max_push_id", "cancel_push", "data", "headers", "push_promise"}}
    \cup {[type |-> "goaway", id |-> g] : g \in GoawayIds}

\* The control frames one drain finds available.
CtlBatches == UNION {[1 .. n -> CtlFrames] : n \in 0 .. MaxCtlBatch}

\* --------------------------------------------------------------- Connection
\* Faulty variant of PollControl: a frame of any other type is skipped like a
\* push frame.
RECURSIVE PollControlLenient(_, _)
PollControlLenient(rc, frames) ==
    IF frames = <<>> THEN [recv |-> rc, err |-> "none"]
    ELSE LET f == Head(frames) IN
         IF f.type = "goaway"
         THEN LET g == ProcessGoaway(rc, f.id) IN
              IF g.err # "none" THEN g ELSE PollControlLenient(g.recv, Tail(frames))
         ELSE PollControlLenient(rc, Tail(frames))

\* Connection::poll_control: every available control frame, in order, until
\* one is refused.
RECURSIVE PollControl(_, _)
PollControl(rc, frames) ==
    IF frames = <<>> THEN [recv |-> rc, err |-> "none"]
    ELSE LET f == Head(frames) IN
         CASE f.type = "settings" -> PollControl(rc, Tail(frames))
           [] f.type = "goaway" ->
                LET g == ProcessGoaway(rc, f.id) IN
                IF g.err # "none" THEN g ELSE PollControl(g.recv, Tail(frames))
           [] f.type \in {"max_push_id", "cancel_push"} -> PollControl(rc, Tail(frames))
           [] OTHER -> [recv |-> rc, err |-> "H3_FRAME_UNEXPECTED"]

\* Faulty variant of PollRequestsCompletion: the drain empties the channel
\* and removes nothing from ongoing_streams.
PollRequestsCompletionKeep(og, ch) ==
    [ongoing |-> og, chan |-> <<>>, ready |-> og = {}]

\* Connection::poll_requests_completion: every queued completion is removed
\* from ongoing_streams (the channel is never closed: the Connection holds a
\* sender); Ready exactly when no stream is ongoing afterwards.
PollRequestsCompletion(og, ch) ==
    [ongoing |-> og \ Range(ch), chan |-> <<>>, ready |-> (og \ Range(ch)) = {}]

\* Faulty variant of BeyondClosing: the stream at the boundary is rejected
\* as well.
BeyondClosingEarly(id) == sent_closing # None /\ id >= sent_closing

\* Faulty variant of BeyondClosing: the signalled rule lets one more stream
\* through.
BeyondClosingLate(id) == sent_closing # None /\ id > sent_closing + IdStep

\* The signalled rule of poll_accept_request for an incoming stream.
BeyondClosing(id) == sent_closing # None /\ id > sent_closing

\* Faulty variant of Rejection: the stream is reset and the peer is not told
\* to stop sending.
RejectionResetOnly == {[op |-> "reset", code |-> "H3_REQUEST_REJECTED"]}

\* What poll_accept_request signals on a stream it rejects.
Rejection ==
    {[op |-> "stop_sending", code |-> "H3_REQUEST_REJECTED"],
     [op |-> "reset", code |-> "H3_REQUEST_REJECTED"]}

\* The signals a pass of the loop sends on the incoming stream, by what
\* inner.poll_accept_request gave.
Signals(out) == IF out = "stream" /\ BeyondClosing(next_id) THEN Rejection ELSE {}

\* Faulty variant of LastAccepted: an admission during a shutdown forgets the
\* last accepted stream.
LastAcceptedUnset(id) == IF sent_closing = None THEN id ELSE None

\* last_accepted_stream after poll_accept_request admitted stream id.
LastAccepted(id) == id

\* Faulty variant of TransportOutcomes: a closed connection still delivers.
TransportOutcomesAlways == {"pending", "stream", "none", "err_closed", "err_transport"}

\* What inner.poll_accept_request can return, by the state of the transport.
TransportOutcomes ==
    CASE transport = "open" -> {"pending", "stream", "none", "err_closed", "err_transport"}
      [] transport = "ended" -> {"none"}
      [] OTHER -> {"err_closed"}

\* Faulty variant of AcceptErr: an error that says the connection is closed
\* is handed to the caller like any other.
AcceptErrLoud(out) == RetConnErr("transport")

\* What accept() returns when poll_accept_request failed on the transport:
\* Kind::Closed => Ok(None), any other transport error unchanged.
AcceptErr(out) == IF out = "err_closed" THEN RetEoi ELSE RetConnErr("transport")

\* accept() returns r.
Return(r) ==
    /\ pc' = "idle"
    /\ ret' = r
    /\ UNCHANGED <<cur, cancel_size>>

\* The model follows a stream until its completion has been drained from the
\* channel; after that only its notification count is kept.
Forget(ids) ==
    /\ st' = [id \in StreamIds |->
                IF id \in ids /\ st[id] \in {"surfaced", "failed"} THEN "done" ELSE st[id]]
    /\ resp' = [id \in StreamIds |-> IF id \in ids THEN "none" ELSE resp[id]]

\* One pass of the loop of poll_accept_request; `first` says that the
\* completion drain at the top of poll_accept_request has just run, rc is
\* recv_closing as poll_control left it.
AcceptLoop(rc, first, out) ==
    LET done == PollRequestsCompletion(ongoing_streams, request_end)
        og == IF first THEN done.ongoing ELSE ongoing_streams
        ch == IF first THEN done.chan ELSE request_end
        gone == IF first THEN Range(request_end) ELSE {}
    IN
    /\ recv_closing' = rc
    /\ CASE out = "err_closed" ->
              \* Kind::Closed => return Ok(None)
              /\ transport' = "closed"
              /\ ongoing_streams' = og /\ request_end' = ch /\ Forget(gone)
              /\ Return(AcceptErr(out))
              /\ UNCHANGED <<last_accepted_stream, next_id, closed>>
         [] out = "err_transport" ->
              \* _ => return Err(err)
              /\ transport' = "closed"
              /\ ongoing_streams' = og /\ request_end' = ch /\ Forget(gone)
              /\ Return(AcceptErr(out))
              /\ UNCHANGED <<last_accepted_stream, next_id, closed>>
         [] out = "none" ->
              /\ transport' = "ended"
              /\ ongoing_streams' = done.ongoing /\ request_end' = done.chan
              /\ Forget(Range(request_end))
              /\ pc' = IF done.ready THEN "goaway" ELSE "poll"
              /\ UNCHANGED <<last_accepted_stream, next_id, cur, cancel_size, closed, ret>>
         [] out = "pending" ->
              /\ IF rc # None
                 THEN /\ ongoing_streams' = done.ongoing /\ request_end' = done.chan
                      /\ Forget(Range(request_end))
                      /\ pc' = IF done.ready THEN "goaway" ELSE "poll"
                 ELSE /\ ongoing_streams' = og /\ request_end' = ch /\ Forget(gone)
                      /\ pc' = "poll"
              /\ UNCHANGED <<last_accepted_stream, next_id, cur, cancel_size, closed,
                             ret, transport>>
         [] out = "stream" ->
              /\ next_id \in StreamIds
              /\ next_id' = next_id + IdStep
              /\ IF BeyondClosing(next_id)
                 THEN \* stop_sending + reset with H3_REQUEST_REJECTED, then continue
                      /\ ongoing_streams' = done.ongoing /\ request_end' = done.chan
                      /\ st' = [id \in StreamIds |->
                                  IF id = next_id THEN "rejected"
                                  ELSE IF id \in Range(request_end)
                                          /\ st[id] \in {"surfaced", "failed"}
                                       THEN "done" ELSE st[id]]
                      /\ resp' = [id \in StreamIds |->
                                  IF id \in Range(request_end) THEN "none" ELSE resp[id]]
                      /\ pc' = IF done.ready THEN "goaway" ELSE "loop"
                      /\ UNCHANGED <<last_accepted_stream, cur>>
                 ELSE /\ Cardinality(Live) < MaxLive
                      /\ last_accepted_stream' = LastAccepted(next_id)
                      /\ ongoing_streams' = og \cup {next_id} /\ request_end' = ch
                      /\ st' = [id \in StreamIds |->
                                  IF id = next_id THEN "accepting"
                                  ELSE IF id \in gone /\ st[id] \in {"surfaced", "failed"}
                                       THEN "done" ELSE st[id]]
                      /\ resp' = [id \in StreamIds |-> IF id \in gone THEN "none" ELSE resp[id]]
                      /\ cur' = next_id
                      /\ pc' = "frame"
              /\ UNCHANGED <<closed, ret, cancel_size, transport>>

\* The application calls accept(), after an accept() that returned
\* end-of-input (after = TRUE) or any other value.
AcceptCallOn(after) ==
    /\ pc = "idle"
    /\ pc' = "poll"
    /\ ret' = NoRet
    /\ prev_eoi' = after
    /\ cur' = None
    /\ cancel_size' = 0
    /\ UNCHANGED <<connVars, envVars, streamVars>>

\* The application calls accept(); nothing of the Connection remembers what
\* the accept() before returned.
AcceptCall == AcceptCallOn(prev_eoi)

\* The same call, with what the accept() before returned kept in prev_eoi.
AcceptCallRead == AcceptCallOn(ret.kind = "eoi")

\* Connection::poll_accept_request polled from its start: control-frame
\* drain, completion drain, then the acceptance loop.
PollAcceptRequestOn(ctl, out) ==
    /\ pc = "poll"
    /\ IF ctl.err # "none"
       THEN \* poll_control(cx)? fails; accept() closes the connection
            /\ InnerClose(ctl.err)
            /\ recv_closing' = ctl.recv
            /\ Return(RetConnErr(ctl.err))
            /\ UNCHANGED <<ongoing_streams, request_end, last_accepted_stream,
                           next_id, st, resp>>
       ELSE AcceptLoop(ctl.recv, TRUE, out)
    /\ UNCHANGED <<sent_closing, send_grease_frame, goaway_sent, shutdown_call,
                   handles, fin, notified, prev_eoi>>

\* The same, over what inner.poll_accept_request can give.
PollAcceptRequestCtl(ctl) ==
    \E out \in IF ctl.err = "none" THEN TransportOutcomes ELSE {"unpolled"} :
        PollAcceptRequestOn(ctl, out)

\* The control frames a poll can find: none once the transport is closed.
Available == IF transport = "closed" THEN {<<>>} ELSE CtlBatches

\* A poll of poll_accept_request, over what poll_control makes of the
\* available control frames.
PollAcceptRequest ==
    \E ctl \in {PollControl(recv_closing, batch) : batch \in Available} :
        PollAcceptRequestCtl(ctl)

\* The same poll, with the control frames it found kept in ctl_read and what
\* inner.poll_accept_request gave, if the poll got that far, in stream_poll.
PollAcceptRequestRead ==
    \E batch \in Available :
        LET ctl == PollControl(recv_closing, batch) IN
        \E out \in IF ctl.err = "none" THEN TransportOutcomes ELSE {"unpolled"} :
            /\ PollAcceptRequestOn(ctl, out)
            /\ ctl_read' = batch
            /\ stream_poll' = out
            /\ signalled' = Signals(out)

\* The loop of poll_accept_request going round after a rejected stream.
AcceptLoopNextOn(out) ==
    /\ pc = "loop"
    /\ AcceptLoop(recv_closing, FALSE, out)
    /\ UNCHANGED <<sent_closing, send_grease_frame, goaway_sent, shutdown_call,
                   handles, fin, notified, prev_eoi>>

\* The same, over what inner.poll_accept_request can give.
AcceptLoopNext == \E out \in TransportOutcomes : AcceptLoopNextOn(out)

\* The same, with what inner.poll_accept_request gave kept in stream_poll.
AcceptLoopNextRead ==
    \E out \in TransportOutcomes :
        AcceptLoopNextOn(out) /\ stream_poll' = out /\ signalled' = Signals(out)

\* accept() after poll_accept_request returned Ok(None): shutdown(0).await?
\* and then Ok(None).
AcceptLastGoaway ==
    /\ pc = "goaway"
    /\ \E wrote \in ShutdownWrites :
          /\ InnerShutdown(ShutdownMaxId(last_accepted_stream, 0), 0, wrote)
          /\ Return(IF ShutdownOk(wrote) THEN RetEoi ELSE RetConnErr("goaway_write"))
    /\ UNCHANGED <<ongoing_streams, request_end, recv_closing, last_accepted_stream,
                   send_grease_frame, closed, next_id, streamVars, prev_eoi>>

\* Connection::shutdown(max_requests), called by the application.
Shutdown(max_requests) ==
    /\ pc = "idle"
    /\ \E wrote \in ShutdownWrites :
          InnerShutdown(ShutdownMaxId(last_accepted_stream, max_requests),
                        max_requests, wrote)
    /\ UNCHANGED <<ongoing_streams, request_end, recv_closing, last_accepted_stream,
                   send_grease_frame, closed, next_id, streamVars, taskVars>>

\* ------------------------------------------------------------ RequestStream
\* Faulty variant of LastHandle: the obligation goes with the handle that can
\* send, whether or not the receive half is still alive.
LastHandleSends(id, h) == h \in {"whole", "send"}

\* Faulty variant of LastHandle: every handle, not only the last one, runs the
\* drop of RequestEnd.
LastHandleEvery(id, h) == TRUE

\* Arc<RequestEnd>: Drop for RequestEnd runs when the last handle sharing the
\* Arc is dropped.
LastHandle(id, h) == handles[id] = {h}

\* Drop for RequestEnd: request_end.send(stream_id).
Notify(id) ==
    /\ request_end' = Append(request_end, id)
    /\ notified' = [notified EXCEPT ![id] = @ + 1]

\* Faulty variant of Decode: a stream error of the decoder is raised to a
\* connection error.
DecodeEscalates(size, max_size, dec) ==
    IF size > max_size THEN "too_long" ELSE IF dec = "stream" THEN "conn" ELSE dec

\* qpack::decode_stateless(&mut encoded, max_size): HeaderTooLong(size) when
\* the block is larger than max_size, otherwise the peer's block decides.
Decode(size, max_size, dec) ==
    IF size > max_size THEN "too_long" ELSE dec

\* Faulty variant of SendResponse: the header frame is written before its
\* size is looked at.
SendResponseWritesFirst(mem_size, max_mem_size, wrote) ==
    IF ~wrote THEN [res |-> "io", actual |-> 0, configured |-> 0, writes |-> 1]
    ELSE IF mem_size > max_mem_size
         THEN [res |-> "too_big", actual |-> mem_size, configured |-> max_mem_size,
               writes |-> 1]
         ELSE [res |-> "ok", actual |-> 0, configured |-> 0, writes |-> 1]

\* RequestStream::send_response: the head is refused when larger than the
\* peer's limit (nothing is written), otherwise one HEADERS frame is handed
\* to stream::write, and the write can fail. `writes` counts the calls of
\* stream::write.
SendResponse(mem_size, max_mem_size, wrote) ==
    IF mem_size > max_mem_size
    THEN [res |-> "too_big", actual |-> mem_size, configured |-> max_mem_size,
          writes |-> 0]
    ELSE IF wrote THEN [res |-> "ok", actual |-> 0, configured |-> 0, writes |-> 1]
         ELSE [res |-> "io", actual |-> 0, configured |-> 0, writes |-> 1]

\* A call of send_response as the record keeps it.
Recorded(id, mem_size, max_mem_size, r) ==
    [id |-> id, mem_size |-> mem_size, max_mem_size |-> max_mem_size, res |-> r.res,
     actual |-> r.actual, configured |-> r.configured, writes |-> r.writes]

\* Frame types other than a header block that a stream can start with.
OtherFrameTypes == {"data", "settings", "push_promise"}

\* Faulty variant of FirstFrameCode: a stream that ends at once is reported
\* like a frame of the wrong type.
FirstFrameCodeSame(k) == "H3_FRAME_UNEXPECTED"

\* The code accept() closes the connection with when the stream gives no
\* header block first: it ended (Ok(None)), or starts with another frame.
FirstFrameCode(k) ==
    IF k = "eof" THEN "H3_REQUEST_INCOMPLETE" ELSE "H3_FRAME_UNEXPECTED"

\* What reading the first frame of the accepted stream gives: a header block
\* of some size, whose content decodes and parses or fails to (a block that
\* fails to decode is not parsed), or no header block.
LeadingFrames ==
    {[k |-> "headers", size |-> z, dec |-> "ok", parse |-> p] :
        z \in HeaderSizes, p \in {"ok", "malformed"}}
    \cup {[k |-> "headers", size |-> z, dec |-> d, parse |-> "ok"] :
            z \in HeaderSizes, d \in {"stream", "conn", "closed", "other"}}
    \cup {[k |-> x, size |-> 0, dec |-> "ok", parse |-> "ok"] :
            x \in {"eof", "err_closed", "err_conn", "err_stream", "err_other"}
                    \cup OtherFrameTypes}

\* Faulty variant of StopCode: the stream is stopped without an error.
StopCodeNoError(code) == "H3_NO_ERROR"

\* error.try_get_code().unwrap_or(Code::H3_MESSAGE_ERROR); "" is an error
\* that carries no code.
StopCode(code) == IF code = "" THEN "H3_MESSAGE_ERROR" ELSE code

\* The header block decoded and no request can be made of its fields.
Malformed(f) ==
    /\ f.k = "headers" /\ f.parse = "malformed"
    /\ Decode(f.size, max_field_section_size, f.dec) = "ok"

\* accept() from the first frame of the accepted stream to its return, or to
\* the 431 response it awaits.
AcceptLeadingFrameOn(f) ==
    /\ pc = "frame"
    /\  LET id == cur
            d == Decode(f.size, max_field_section_size, f.dec)
        IN
        CASE f.k = "eof" ->
                  /\ InnerClose(FirstFrameCode(f.k))
                  /\ Return(RetConnErr(FirstFrameCode(f.k)))
                  /\ st' = [st EXCEPT ![id] = "aborted"]
                  /\ UNCHANGED <<handles, request_end, notified, send_grease_frame>>
          [] f.k \in OtherFrameTypes ->
                  /\ InnerClose(FirstFrameCode(f.k))
                  /\ Return(RetConnErr(FirstFrameCode(f.k)))
                  /\ st' = [st EXCEPT ![id] = "aborted"]
                  /\ UNCHANGED <<handles, request_end, notified, send_grease_frame>>
          [] f.k = "err_closed" ->
                  /\ transport' = "closed"
                  /\ Return(RetEoi)
                  /\ st' = [st EXCEPT ![id] = "aborted"]
                  /\ UNCHANGED <<handles, request_end, notified, send_grease_frame, closed>>
          [] f.k = "err_conn" ->
                  /\ InnerClose("H3_FRAME_ERROR")
                  /\ Return(RetConnErr("H3_FRAME_ERROR"))
                  /\ st' = [st EXCEPT ![id] = "aborted"]
                  /\ UNCHANGED <<handles, request_end, notified, send_grease_frame>>
          [] f.k = "err_stream" ->
                  \* stream.reset(code); return Err(err): no RequestEnd exists yet
                  /\ Cardinality(Leaked) < MaxLeaked
                  /\ Return(RetStreamErr(id, "H3_REQUEST_CANCELLED"))
                  /\ st' = [st EXCEPT ![id] = "leaked"]
                  /\ UNCHANGED <<handles, request_end, notified, send_grease_frame,
                                 closed, transport>>
          [] f.k = "err_other" ->
                  \* _ => return Err(err): the transport failed
                  /\ transport' = "closed"
                  /\ Return(RetOtherErr("read"))
                  /\ st' = [st EXCEPT ![id] = "aborted"]
                  /\ UNCHANGED <<handles, request_end, notified, send_grease_frame, closed>>
          [] f.k = "headers" /\ d = "too_long" ->
                  \* request_stream lives across send_response(431).await
                  /\ handles' = [handles EXCEPT ![id] = {"whole"}]
                  /\ cancel_size' = f.size
                  /\ pc' = "send431"
                  /\ UNCHANGED <<st, ret, cur, request_end, notified,
                                 send_grease_frame, closed, transport>>
          [] f.k = "headers" /\ d = "closed" ->
                  /\ transport' = "closed"
                  /\ Return(RetEoi)
                  /\ st' = [st EXCEPT ![id] = "aborted"]
                  /\ Notify(id)
                  /\ UNCHANGED <<handles, send_grease_frame, closed>>
          [] f.k = "headers" /\ d = "conn" ->
                  /\ InnerClose("QPACK_DECOMPRESSION_FAILED")
                  /\ Return(RetConnErr("QPACK_DECOMPRESSION_FAILED"))
                  /\ st' = [st EXCEPT ![id] = "aborted"]
                  /\ Notify(id)
                  /\ UNCHANGED <<handles, send_grease_frame>>
          [] f.k = "headers" /\ d = "other" ->
                  \* _ => return Err(err): the transport failed
                  /\ transport' = "closed"
                  /\ Return(RetOtherErr("read"))
                  /\ st' = [st EXCEPT ![id] = "aborted"]
                  /\ Notify(id)
                  /\ UNCHANGED <<handles, send_grease_frame, closed>>
          [] f.k = "headers" /\ d = "stream" ->
                  \* request_stream.stop_stream(code); return Err(err)
                  /\ Return(RetStreamErr(id, "QPACK_DECOMPRESSION_FAILED"))
                  /\ st' = [st EXCEPT ![id] = "failed"]
                  /\ Notify(id)
                  /\ UNCHANGED <<handles, send_grease_frame, closed, transport>>
          [] f.k = "headers" /\ d = "ok" /\ f.parse = "malformed" ->
                  \* request_stream.stop_stream(H3_MESSAGE_ERROR); return Err(error)
                  /\ Return(RetStreamErr(id, "H3_MESSAGE_ERROR"))
                  /\ st' = [st EXCEPT ![id] = "failed"]
                  /\ Notify(id)
                  /\ UNCHANGED <<handles, send_grease_frame, closed, transport>>
          [] f.k = "headers" /\ d = "ok" /\ f.parse = "ok" ->
                  /\ handles' = [handles EXCEPT ![id] = {"whole"}]
                  /\ send_grease_frame' = FALSE
                  /\ Return(RetRequest(id))
                  /\ st' = [st EXCEPT ![id] = "surfaced"]
                  /\ UNCHANGED <<request_end, notified, closed, transport>>
    /\ UNCHANGED <<ongoing_streams, sent_closing, recv_closing, last_accepted_stream,
                   goaway_sent, shutdown_call, next_id, fin, resp, prev_eoi>>

\* The same, over everything the read of the first frame can give.
AcceptLeadingFrame == \E f \in LeadingFrames : AcceptLeadingFrameOn(f)

\* The same, with what the read gave kept in first_frame; a header block
\* takes accept() to the construction of the RequestStream, which is counted
\* when it copies a set send_grease_frame.
AcceptLeadingFrameRead ==
    \E f \in LeadingFrames :
        /\ AcceptLeadingFrameOn(f)
        /\ first_frame' = f
        /\ greased' = IF f.k = "headers" /\ send_grease_frame THEN greased + 1 ELSE greased
        /\ signalled' = IF Malformed(f)
                        THEN {[op |-> "stop_stream", code |-> StopCode(ret'.code)]}
                        ELSE {}

\* accept() on a header block that is too long: send_response(431).await?,
\* then Err(header_too_big(cancel_size, max_field_section_size)); the
\* request_stream is dropped on return.
AcceptSend431On(max_mem_size, wrote) ==
    /\ pc = "send431"
    /\  LET r == SendResponse(ResponseSize431, max_mem_size, wrote) IN
        /\ Return(CASE r.res = "ok" -> RetTooBig(cur, cancel_size, max_field_section_size)
                    [] r.res = "too_big" -> RetTooBig(cur, r.actual, r.configured)
                    [] OTHER -> RetOtherErr("write"))
    /\ handles' = [handles EXCEPT ![cur] = {}]
    /\ Notify(cur)
    /\ st' = [st EXCEPT ![cur] = "failed"]
    /\ UNCHANGED <<ongoing_streams, sent_closing, recv_closing, last_accepted_stream,
                   send_grease_frame, closed, goaway_sent, shutdown_call, envVars,
                   fin, prev_eoi>>

\* The same, over the peer's limits and the outcomes of the write.
AcceptSend431 ==
    \E wrote \in BOOLEAN, max_mem_size \in PeerMaxSizes :
        /\ AcceptSend431On(max_mem_size, wrote)
        /\ UNCHANGED resp

\* The same, with the outcome of send_response kept for the stream in resp.
AcceptSend431Kept ==
    \E wrote \in BOOLEAN, max_mem_size \in PeerMaxSizes :
        /\ AcceptSend431On(max_mem_size, wrote)
        /\ resp' = [resp EXCEPT
                      ![cur] = SendResponse(ResponseSize431, max_mem_size, wrote).res]

\* The same, with the call of send_response kept in response.
AcceptSend431Read ==
    \E wrote \in BOOLEAN, max_mem_size \in PeerMaxSizes :
        /\ AcceptSend431On(max_mem_size, wrote)
        /\ UNCHANGED resp
        /\ response' = Recorded(cur, ResponseSize431, max_mem_size,
                                SendResponse(ResponseSize431, max_mem_size, wrote))

\* RequestStream::send_response called by the task that holds a handle able
\* to send; the call is kept in response.
SendResponseRead(id) ==
    /\ st[id] = "surfaced"
    /\ handles[id] \cap {"whole", "send"} # {}
    /\ fin[id] = "none"
    /\ \E mem_size \in ResponseSizes, max_mem_size \in PeerMaxSizes, wrote \in BOOLEAN :
          response' = Recorded(id, mem_size, max_mem_size,
                               SendResponse(mem_size, max_mem_size, wrote))
    /\ UNCHANGED <<connVars, envVars, streamVars, taskVars>>

\* RequestStream::finish on a handle that can send.
Finish(id) ==
    /\ st[id] = "surfaced"
    /\ handles[id] \cap {"whole", "send"} # {}
    /\ fin[id] = "none"
    /\ fin' = [fin EXCEPT ![id] = "finished"]
    /\ UNCHANGED <<connVars, envVars, taskVars, st, handles, notified, resp>>

\* RequestStream::send_trailers, which also finishes the stream.
SendTrailers(id) ==
    /\ st[id] = "surfaced"
    /\ handles[id] \cap {"whole", "send"} # {}
    /\ fin[id] = "none"
    /\ fin' = [fin EXCEPT ![id] = "trailers"]
    /\ UNCHANGED <<connVars, envVars, taskVars, st, handles, notified, resp>>

\* RequestStream::stop_stream, at any time.
StopStream(id) ==
    /\ st[id] = "surfaced"
    /\ handles[id] \cap {"whole", "send"} # {}
    /\ fin[id] # "stopped"
    /\ fin' = [fin EXCEPT ![id] = "stopped"]
    /\ UNCHANGED <<connVars, envVars, taskVars, st, handles, notified, resp>>

\* RequestStream::split: both halves hold the same Arc<RequestEnd>.
Split(id) ==
    /\ st[id] = "surfaced"
    /\ handles[id] = {"whole"}
    /\ handles' = [handles EXCEPT ![id] = {"send", "recv"}]
    /\ UNCHANGED <<connVars, envVars, taskVars, st, fin, notified, resp>>

\* A task releases (drops) one handle of a surfaced stream; how the response
\* side was ended is state of the handle that can send and goes with it.
DropHandle(id, h) ==
    /\ st[id] = "surfaced"
    /\ h \in handles[id]
    /\ handles' = [handles EXCEPT ![id] = @ \ {h}]
    /\ fin' = IF h \in {"whole", "send"} THEN [fin EXCEPT ![id] = "none"] ELSE fin
    /\ IF LastHandle(id, h) THEN Notify(id) ELSE UNCHANGED <<request_end, notified>>
    /\ UNCHANGED <<ongoing_streams, sent_closing, recv_closing, last_accepted_stream,
                   send_grease_frame, closed, goaway_sent, shutdown_call, envVars,
                   taskVars, st, resp>>

\* Faulty variant of RequestEndDrop: the result of send is unwrapped.
RequestEndDropUnwrap(live) == IF live THEN "sent" ELSE "panic"

\* Drop for RequestEnd: request_end.send(stream_id) on the unbounded channel
\* fails exactly when the receiver, a field of the Connection, is gone, and
\* the failure is written to the log.
RequestEndDrop(live) == IF live THEN "sent" ELSE "logged"

\* A task releases one handle of a surfaced stream, whether the Connection is
\* still there or not.
DropHandleLogged(id, h) ==
    /\ st[id] = "surfaced"
    /\ h \in handles[id]
    /\ handles' = [handles EXCEPT ![id] = @ \ {h}]
    /\ fin' = IF h \in {"whole", "send"} THEN [fin EXCEPT ![id] = "none"] ELSE fin
    /\ LET o == IF LastHandle(id, h) THEN RequestEndDrop(conn_live) ELSE "kept" IN
       /\ IF o = "sent" THEN Notify(id) ELSE UNCHANGED <<request_end, notified>>
       /\ logged' = IF o = "logged" THEN logged + 1 ELSE logged
       /\ panicked' = (panicked \/ o = "panic")
    /\ UNCHANGED <<ongoing_streams, sent_closing, recv_closing, last_accepted_stream,
                   send_grease_frame, closed, goaway_sent, shutdown_call, envVars,
                   taskVars, st, resp, conn_live, recordVars, sessionVars>>

\* Drop for Connection: inner.close(H3_NO_ERROR, ""), its result discarded;
\* the fields go with the Connection, among them the receiver of the
\* completion channel and what it had queued. The tasks keep their handles.
DropConnection ==
    /\ conn_live /\ pc = "idle"
    /\ conn_live' = FALSE
    /\ InnerClose("H3_NO_ERROR")
    /\ request_end' = <<>>
    /\ UNCHANGED <<ongoing_streams, sent_closing, recv_closing, last_accepted_stream,
                   send_grease_frame, goaway_sent, shutdown_call, next_id, streamVars,
                   taskVars, logged, panicked, recordVars, sessionVars>>

\* ------------------------------------------------------ WebTransportSession
\* What one poll of Connection::poll_control hands to poll_fn: the drain loop
\* ends either on a frame error (Ready(Err)) or, when the control stream has
\* nothing more, at the final Poll::Pending. It has no Ready(Ok) exit.
\* (PollControlPollReady is the faulty variant that has one.)
PollControlPollReady(ctl) == IF ctl.err = "none" THEN "ready_ok" ELSE "ready_err"
PollControlPoll(ctl) == IF ctl.err = "none" THEN "pending" ELSE "ready_err"

\* The checks of WebTransportSession::new on the peer's settings: the error
\* code the session is refused with, or "none".
PeerSupport(shared) ==
    IF ~shared.enable_webtransport THEN "H3_SETTINGS_ERROR"
    ELSE IF ~shared.enable_datagram THEN "H3_SETTINGS_ERROR"
    ELSE "none"

\* WebTransportSession::new(conn) is called: it takes the connection over and
\* awaits poll_control.
WebTransportNew ==
    /\ pc = "idle"
    /\ closed = "open"
    /\ pc' = "wt_new"
    /\ ret' = NoRet
    /\ UNCHANGED <<connVars, envVars, streamVars, cur, cancel_size, prev_eoi, sideVars>>

\* One poll of the future of WebTransportSession::new. Pending keeps it
\* waiting; an error leaves through `?` and drops the connection, whose Drop
\* closes it with H3_NO_ERROR; past the await come the checks of the peer's
\* settings (the local Config is read for warnings only).
WebTransportPollOn(ctl) ==
    /\ pc = "wt_new"
    /\ recv_closing' = ctl.recv
    /\ CASE PollControlPoll(ctl) = "pending" ->
              UNCHANGED <<pc, ret, closed, transport>>
         [] PollControlPoll(ctl) = "ready_err" ->
              /\ pc' = "wt_done"
              /\ ret' = RetConnErr(ctl.err)
              /\ InnerClose("H3_NO_ERROR")
         [] PollControlPoll(ctl) = "ready_ok" ->
              /\ pc' = "wt_done"
              /\ IF PeerSupport(shared_config) # "none"
                 THEN /\ ret' = RetConnErr(PeerSupport(shared_config))
                      /\ InnerClose(PeerSupport(shared_config))
                 ELSE /\ ret' = RetOtherErr("todo")
                      /\ InnerClose("H3_NO_ERROR")
    /\ UNCHANGED <<ongoing_streams, request_end, sent_closing, last_accepted_stream,
                   send_grease_frame, goaway_sent, shutdown_call, next_id,
                   streamVars, cur, cancel_size, prev_eoi, sideVars>>

\* The same, over what poll_control makes of the control frames the peer has
\* sent since the last poll.
WebTransportPoll ==
    \E ctl \in {PollControl(recv_closing, batch) : batch \in CtlBatches} :
        WebTransportPollOn(ctl)

\* The poll that finds no further frame on the control stream.
WebTransportPollQuiet == WebTransportPollOn(PollControl(recv_closing, <<>>))

\* ------------------------------------------------ the shared-state lock
\* What the steps that take or release the lock leave alone.
lockRest == <<configVars, send_stream, ctl_read, first_frame, greased, response,
              stream_poll, signalled, dropVars, sessionVars>>

\* No guard of the lock is alive.
LockFree == shared_lock.writer = "none" /\ shared_lock.readers = {}

\* send_response of the handle of stream id reads max_field_section_size:
\* self.inner.conn_state.read("send_response") gives it a read guard.
SendResponseGuard(id) ==
    /\ st[id] = "surfaced" /\ handles[id] # {}
    /\ id \notin shared_lock.readers
    /\ shared_lock.writer = "none"
    /\ shared_lock' = [shared_lock EXCEPT !.readers = @ \cup {id}]
    /\ UNCHANGED <<connVars, envVars, streamVars, taskVars, lockRest>>

\* The guard is a temporary of the statement of lines 721-726: it is dropped
\* at its end, before the size check and the write that send_response awaits.
SendResponseGuardDropped(id) ==
    /\ id \in shared_lock.readers
    /\ shared_lock' = [shared_lock EXCEPT !.readers = @ \ {id}]
    /\ UNCHANGED <<connVars, envVars, streamVars, taskVars, lockRest>>

\* WebTransportSession::new is called with the connection.
NewCalled ==
    /\ pc = "idle"
    /\ closed = "open"
    /\ pc' = "wt_new"
    /\ ret' = NoRet
    /\ shared_lock' = [shared_lock EXCEPT !.acq = 0]
    /\ UNCHANGED <<connVars, envVars, streamVars, cur, cancel_size, prev_eoi, lockRest>>

\* One poll of the future of WebTransportSession::new, lock by lock. An error
\* of poll_control leaves through `?`; the Connection is dropped and its
\* Drop closes it, for which close takes the lock, once it is free. Past the
\* await, in the same poll, shared.write("Read WebTransport support") takes
\* the write guard that lives to the end of the block of the settings checks.
\* A failed check calls conn.inner.close(H3_SETTINGS_ERROR, ..) with the guard
\* alive: close asks for the lock the task holds and the task waits for
\* itself. Passed checks end the block, which drops the guard, and come to
\* todo!().
NewPolled(ctl) ==
    /\ pc = "wt_new"
    /\ recv_closing' = ctl.recv
    /\ CASE PollControlPoll(ctl) = "pending" ->
              UNCHANGED <<pc, ret, closed, transport, shared_lock>>
         [] PollControlPoll(ctl) = "ready_err" ->
              /\ LockFree
              /\ pc' = "wt_done"
              /\ ret' = RetConnErr(ctl.err)
              /\ InnerClose("H3_NO_ERROR")
              /\ shared_lock' = [shared_lock EXCEPT !.acq = @ + 1]
         [] PollControlPoll(ctl) = "ready_ok" ->
              /\ LockFree
              /\ IF PeerSupport(shared_config) # "none"
                 THEN /\ pc' = "wt_blocked"
                      /\ shared_lock' = [shared_lock EXCEPT !.writer = "new", !.acq = @ + 2]
                      /\ UNCHANGED <<ret, closed, transport>>
                 ELSE /\ pc' = "wt_done"
                      /\ ret' = RetOtherErr("todo")
                      /\ InnerClose("H3_NO_ERROR")
                      /\ shared_lock' = [shared_lock EXCEPT !.acq = @ + 1]
    /\ UNCHANGED <<ongoing_streams, request_end, sent_closing, last_accepted_stream,
                   send_grease_frame, goaway_sent, shutdown_call, next_id,
                   streamVars, cur, cancel_size, prev_eoi, lockRest>>

\* -------------------------------------------- the WebTransport server task
\* Session ids the peer puts in front of its datagrams.
SessionTags == {0, 4}

\* What an incoming bidirectional stream of a session turns out to be:
\* AcceptedBi::BidiStream or AcceptedBi::Request.
BiKinds == {"stream", "request"}

\* The fields of the Connection other than the close code.
connFields == <<ongoing_streams, request_end, sent_closing, recv_closing,
                last_accepted_stream, send_grease_frame, goaway_sent, shutdown_call>>

\* Faulty variant of ReadDatagram: every datagram is handed on.
ReadDatagramAny(sid, d) == TRUE

\* WebTransportSession::read_datagram: whether the datagram with the leading
\* session id d is handed to the caller of the session sid.
ReadDatagram(sid, d) == d = sid

\* The task ends: what it owns is dropped, last the Connection.
TaskEnds(how) ==
    /\ app' = how
    /\ conn_live' = FALSE
    /\ InnerClose("H3_NO_ERROR")

\* Faulty variant of SessionId: the session is numbered from the first
\* request stream.
SessionIdFirst(id) == FIRST_REQUEST

\* The id of the session established by the request on stream id.
SessionId(id) == id

\* WebTransportSession::accept(req, stream, conn).await?: the Connection and
\* the request stream are moved into the call; the peer's settings decide.
SessionAccept(id) ==
    IF PeerSupport(shared_config) # "none"
    THEN /\ app' = "failed"
         /\ conn_live' = FALSE
         /\ InnerClose(PeerSupport(shared_config))
         /\ handles' = [handles EXCEPT ![id] = {}]
         /\ UNCHANGED session_id
    ELSE /\ app' = "select"
         /\ session_id' = SessionId(id)
         /\ UNCHANGED <<conn_live, closed, transport, handles>>

\* handle_connection, on what conn.accept() returned: a WebTransport CONNECT
\* establishes the session and the loop is left for good, any other request
\* is logged and dropped; end-of-input and a connection error leave the loop
\* and the function, a stream error goes round.
HandleAccepted ==
    /\ app = "accepting" /\ pc = "idle"
    /\ CASE ret.kind = "request" /\ handles[ret.id] = {"whole"} ->
              \E wt \in BOOLEAN :
                  IF wt
                  THEN /\ SessionAccept(ret.id)
                       /\ UNCHANGED <<connFields, next_id, st, fin, notified, resp,
                                      taskVars, recordVars, logged, panicked,
                                      dgram_in, uni_in, bi_in, event>>
                  ELSE DropHandle(ret.id, "whole") /\ UNCHANGED sideVars
         [] ret.kind \in {"eoi", "err_conn"} ->
              /\ TaskEnds("returned")
              /\ UNCHANGED <<connFields, next_id, streamVars, taskVars, recordVars,
                             logged, panicked, session_id, dgram_in, uni_in, bi_in,
                             event>>
         [] OTHER -> FALSE

\* handle_connection calls conn.accept() again: it still has the Connection
\* and has dealt with what the last call returned.
AcceptAgain ==
    /\ app = "accepting"
    /\ ret.kind \notin {"eoi", "err_conn"}
    /\ ret.kind = "request" => handles[ret.id] = {}
    /\ AcceptCall

\* What a turn of the session loop leaves alone when the task goes on.
SessionFrame ==
    UNCHANGED <<connVars, envVars, streamVars, taskVars, recordVars, dropVars,
                session_id>>

\* select!: the branch of read_datagram wins. A datagram of another session
\* is dropped; one of this session is handed to the handler, which answers
\* it with send_datagram(resp).unwrap(), and that fails on a closed connection.
SelectDatagram ==
    /\ app = "select" /\ dgram_in # <<>>
    /\ dgram_in' = Tail(dgram_in)
    /\ IF ReadDatagram(session_id, Head(dgram_in))
       THEN /\ event' = [src |-> "datagram", id |-> Head(dgram_in)]
            /\ IF transport = "closed" THEN TaskEnds("panicked")
               ELSE UNCHANGED <<app, conn_live, closed, transport>>
       ELSE /\ event' = NoEvent
            /\ UNCHANGED <<app, conn_live, closed, transport>>
    /\ UNCHANGED <<connFields, next_id, streamVars, taskVars, recordVars, logged,
                   panicked, session_id, uni_in, bi_in>>

\* select!: the branch of accept_uni wins; its handler awaits the first data
\* of the stream.
SelectUni ==
    /\ app = "select" /\ uni_in > 0
    /\ uni_in' = uni_in - 1
    /\ app' = "uni_read"
    /\ event' = [src |-> "uni", id |-> session_id]
    /\ UNCHANGED <<dgram_in, bi_in>>
    /\ SessionFrame

\* select!: the branch of accept_bi wins; the handler of a session stream
\* reads it to its end, a new request is let go.
SelectBi ==
    /\ app = "select" /\ bi_in # <<>>
    /\ bi_in' = Tail(bi_in)
    /\ IF Head(bi_in) = "stream"
       THEN app' = "bi_read" /\ event' = [src |-> "bi", id |-> session_id]
       ELSE app' = app /\ event' = [src |-> "request", id |-> None]
    /\ UNCHANGED <<dgram_in, uni_in>>
    /\ SessionFrame

\* The peer sends on the unidirectional stream: poll_data gives its first data
\* or its end, and the loop goes round.
UniRead ==
    /\ app = "uni_read" /\ transport = "open"
    /\ app' = "select"
    /\ UNCHANGED <<dgram_in, uni_in, bi_in, event>>
    /\ SessionFrame

\* The peer finishes its side of the bidirectional stream: the while loop on
\* recv.poll_data ends.
BiFinished ==
    /\ app = "bi_read" /\ transport = "open"
    /\ app' = "bi_write"
    /\ UNCHANGED <<dgram_in, uni_in, bi_in, event>>
    /\ SessionFrame

\* send.write_all(response).await.context(..)?
BiWrite ==
    /\ app = "bi_write"
    /\ \E wrote \in WriteOutcomes :
          IF wrote THEN app' = "select" /\ UNCHANGED <<conn_live, closed, transport>>
          ELSE TaskEnds("failed")
    /\ UNCHANGED <<connFields, next_id, streamVars, taskVars, recordVars, logged,
                   panicked, session_id, dgram_in, uni_in, bi_in, event>>

\* poll_data(cx).await? on a stream of a connection that has closed.
ReadFails ==
    /\ app \in {"uni_read", "bi_read"} /\ transport = "closed"
    /\ TaskEnds("failed")
    /\ UNCHANGED <<connFields, next_id, streamVars, taskVars, recordVars, logged,
                   panicked, session_id, dgram_in, uni_in, bi_in, event>>

\* select! on a closed connection with nothing left: the branch that wins
\* gets None. The branches of read_datagram and accept_bi do nothing with it
\* and the loop goes round; the branch of accept_uni unwraps it.
SelectEnd ==
    /\ app = "select" /\ transport = "closed"
    /\ dgram_in = <<>> /\ uni_in = 0 /\ bi_in = <<>>
    /\ event' = [src |-> "end", id |-> None]
    /\ \E src \in {"datagram", "uni", "bi"} :
          IF src = "uni" THEN TaskEnds("panicked")
          ELSE UNCHANGED <<app, conn_live, closed, transport>>
    /\ UNCHANGED <<connFields, next_id, streamVars, taskVars, recordVars, logged,
                   panicked, session_id, dgram_in, uni_in, bi_in>>

\* The session is there and its task is running.
InSession == app \in {"select", "uni_read", "bi_read", "bi_write"}

\* The peer sends a datagram, opens a stream, or closes the connection.
DatagramArrives(tag) ==
    /\ InSession /\ transport = "open" /\ Len(dgram_in) < MaxQueue
    /\ dgram_in' = Append(dgram_in, tag)
    /\ UNCHANGED <<app, uni_in, bi_in, event>>
    /\ SessionFrame

UniArrives ==
    /\ InSession /\ transport = "open" /\ uni_in < MaxQueue
    /\ uni_in' = uni_in + 1
    /\ UNCHANGED <<app, dgram_in, bi_in, event>>
    /\ SessionFrame

BiArrives(kind) ==
    /\ InSession /\ transport = "open" /\ Len(bi_in) < MaxQueue
    /\ bi_in' = Append(bi_in, kind)
    /\ UNCHANGED <<app, dgram_in, uni_in, event>>
    /\ SessionFrame

PeerCloses ==
    /\ InSession /\ transport = "open"
    /\ transport' = "closed"
    /\ UNCHANGED <<connVars, next_id, streamVars, taskVars, sideVars>>

\* ---------------------------------------------------- webtransport streams
\* The buffers the application gives to write_all.
Bufs == UNION {[1 .. k -> Bytes] : k \in 0 .. MaxLen}

\* Faulty variant of HasRemaining: the loop stops with one byte left.
HasRemainingMore(b) == Len(b) > 1

\* Buf::has_remaining, the condition of the loop of write_all.
HasRemaining(b) == Len(b) > 0

\* Buf::advance(cnt).
Advance(b, cnt) == SubSeq(b, cnt + 1, Len(b))

\* quic::SendStream::poll_send(cx, buf) returning Ready(Ok(cnt)): the
\* transport takes the first cnt bytes of buf and advances buf past them.
PollSend(b, cnt) == [taken |-> SubSeq(b, 1, cnt), rest |-> Advance(b, cnt)]

\* What the steps of write_all leave alone.
connectionVars == <<connVars, envVars, streamVars, taskVars, configVars, shared_lock,
                    ctl_read, first_frame, greased, response, stream_poll, signalled,
                    dropVars, sessionVars>>

\* The application calls write_all(buf).
WriteAllCall(data) ==
    /\ send_stream.ret = "idle"
    /\ send_stream' = [buf |-> data, wire |-> <<>>, src |-> data, ret |-> "running",
                       n |-> None, odd |-> FALSE]
    /\ UNCHANGED connectionVars

\* self.write(&mut buf).await gives Ok(cnt): one turn of the loop.
WriteOk(cnt) ==
    /\ send_stream.ret = "running"
    /\ HasRemaining(send_stream.buf)
    /\ cnt \in 0 .. Len(send_stream.buf)
    /\ LET w == PollSend(send_stream.buf, cnt) IN
          send_stream' = [send_stream EXCEPT !.buf = w.rest,
                                              !.wire = send_stream.wire \o w.taken,
                                              !.n = cnt,
                                              !.odd = ~send_stream.odd]
    /\ UNCHANGED connectionVars

\* self.write(&mut buf).await? gives Err(e): write_all returns it.
WriteErr(e) ==
    /\ send_stream.ret = "running"
    /\ HasRemaining(send_stream.buf)
    /\ send_stream' = [send_stream EXCEPT !.ret = e]
    /\ UNCHANGED connectionVars

\* The loop ends: Ok(()).
WriteAllReturn ==
    /\ send_stream.ret = "running"
    /\ ~HasRemaining(send_stream.buf)
    /\ send_stream' = [send_stream EXCEPT !.ret = "ok"]
    /\ UNCHANGED connectionVars

\* One step of a running write_all.
WriteAllStep ==
    \/ \E cnt \in 0 .. MaxLen : WriteOk(cnt)
    \/ \E e \in SendErrors : WriteErr(e)
    \/ WriteAllReturn

NextWriteAll ==
    \/ \E data \in Bufs : WriteAllCall(data)
    \/ \E cnt \in 0 .. MaxLen : WriteOk(cnt)
    \/ \E e \in SendErrors : WriteErr(e)
    \/ WriteAllReturn

\* A call of write_all on a stream whose transport answers every write in
\* the end: poll_send registers the waker of the task, which is polled again
\* when the stream is writable or has failed.
SpecWriteAll == Init /\ [][NextWriteAll]_vars /\ WF_vars(WriteAllStep)

\* Connection level: the tasks owning request streams only release them.
Next ==
    \/ AcceptCall /\ UNCHANGED sideVars
    \/ PollAcceptRequest /\ UNCHANGED sideVars
    \/ AcceptLoopNext /\ UNCHANGED sideVars
    \/ AcceptLastGoaway /\ UNCHANGED sideVars
    \/ AcceptLeadingFrame /\ UNCHANGED sideVars
    \/ AcceptSend431 /\ UNCHANGED sideVars
    \/ \E k \in InFlightArgs : Shutdown(k) /\ UNCHANGED sideVars
    \/ \E id \in StreamIds, h \in Handles : DropHandle(id, h) /\ UNCHANGED sideVars

Spec == Init /\ [][Next]_vars

\* The same steps, with every call of accept() recording whether the call
\* before it returned end-of-input, and every 431 response its outcome.
NextAgain ==
    \/ AcceptCallRead /\ UNCHANGED sideVars
    \/ PollAcceptRequest /\ UNCHANGED sideVars
    \/ AcceptLoopNext /\ UNCHANGED sideVars
    \/ AcceptLastGoaway /\ UNCHANGED sideVars
    \/ AcceptLeadingFrame /\ UNCHANGED sideVars
    \/ AcceptSend431Kept /\ UNCHANGED sideVars
    \/ \E k \in InFlightArgs : Shutdown(k) /\ UNCHANGED sideVars
    \/ \E id \in StreamIds, h \in Handles : DropHandle(id, h) /\ UNCHANGED sideVars

SpecAgain == Init /\ [][NextAgain]_vars

\* The connection is neither closed nor shutting down, and no stream is lost
\* before its RequestEnd exists.
Orderly ==
    /\ closed = "open"
    /\ transport # "closed"
    /\ recv_closing = None
    /\ Leaked = {}
    /\ ret.kind # "err_conn"

\* Handle level: every operation of RequestStream on the surfaced streams of
\* an orderly connection.
NextHandles ==
    \/ AcceptCall /\ UNCHANGED sideVars
    \/ (PollAcceptRequest /\ Orderly' /\ UNCHANGED sideVars)
    \/ (AcceptLastGoaway /\ Orderly' /\ UNCHANGED sideVars)
    \/ (AcceptLeadingFrame /\ Orderly' /\ UNCHANGED sideVars)
    \/ AcceptSend431 /\ UNCHANGED sideVars
    \/ \E id \in StreamIds : Finish(id) /\ UNCHANGED sideVars
    \/ \E id \in StreamIds : SendTrailers(id) /\ UNCHANGED sideVars
    \/ \E id \in StreamIds : StopStream(id) /\ UNCHANGED sideVars
    \/ \E id \in StreamIds : Split(id) /\ UNCHANGED sideVars
    \/ \E id \in StreamIds, h \in Handles : DropHandle(id, h) /\ UNCHANGED sideVars

SpecHandles == Init /\ [][NextHandles]_vars

\* Lifetime level: the application accepts requests and drops the Connection
\* when it likes, the tasks split and release their handles before and after.
NextDrop ==
    \/ conn_live /\ AcceptCall /\ UNCHANGED sideVars
    \/ (conn_live /\ PollAcceptRequest /\ Orderly' /\ UNCHANGED sideVars)
    \/ (conn_live /\ AcceptLeadingFrame /\ Orderly' /\ UNCHANGED sideVars)
    \/ \E id \in StreamIds : Split(id) /\ UNCHANGED sideVars
    \/ \E id \in StreamIds, h \in Handles : DropHandleLogged(id, h)
    \/ DropConnection

SpecDrop == Init /\ [][NextDrop]_vars

\* A connection handed to WebTransportSession::new, for every local Config and
\* every pair of settings the peer advertised.
InitWebTransport ==
    /\ InitConnection
    /\ shared_config \in PeerConfigs
    /\ config \in Configs

NextWebTransport ==
    \/ WebTransportNew
    \/ WebTransportPoll

SpecWebTransport == InitWebTransport /\ [][NextWebTransport]_vars

\* A connection that has surfaced two requests, whose handles are alive in
\* their tasks, before it is handed to WebTransportSession::new.
InitLock ==
    /\ ongoing_streams = {0, 4}
    /\ request_end = <<>>
    /\ sent_closing = None
    /\ recv_closing = None
    /\ last_accepted_stream = 4
    /\ send_grease_frame = FALSE
    /\ closed = "open"
    /\ goaway_sent = <<>>
    /\ shutdown_call = <<>>
    /\ transport = "open"
    /\ next_id = 8
    /\ st = [id \in StreamIds |-> IF id \in {0, 4} THEN "surfaced" ELSE "idle"]
    /\ handles = [id \in StreamIds |-> IF id \in {0, 4} THEN {"whole"} ELSE {}]
    /\ fin = [id \in StreamIds |-> "none"]
    /\ notified = [id \in StreamIds |-> 0]
    /\ resp = [id \in StreamIds |-> "none"]
    /\ pc = "idle"
    /\ cur = 4
    /\ cancel_size = 0
    /\ ret = RetRequest(4)
    /\ prev_eoi = FALSE
    /\ ctl_read = <<>>
    /\ first_frame = NoFrame
    /\ greased = 0
    /\ response = NoResponse
    /\ stream_poll = "unpolled"
    /\ signalled = {}
    /\ conn_live = TRUE /\ logged = 0 /\ panicked = FALSE
    /\ app = "accepting" /\ session_id = None
    /\ dgram_in = <<>> /\ uni_in = 0 /\ bi_in = <<>> /\ event = NoEvent
    /\ send_stream = NoWrite
    /\ shared_lock = Unlocked
    /\ shared_config \in PeerConfigs
    /\ config \in Configs

\* WebTransportSession::new on that connection, while the tasks of the two
\* requests call send_response.
NextLock ==
    \/ NewCalled
    \/ \E ctl \in {PollControl(recv_closing, batch) : batch \in CtlBatches} : NewPolled(ctl)
    \/ \E id \in StreamIds : SendResponseGuard(id)
    \/ \E id \in StreamIds : SendResponseGuardDropped(id)

SpecLock == InitLock /\ [][NextLock]_vars

\* The same, with the task of WebTransportSession::new run whenever it can
\* go on: the call is made, and a poll that can change anything on what the
\* control stream holds is taken. What the peer sends is left to the peer.
SpecWebTransportFair ==
    /\ SpecWebTransport
    /\ WF_vars(WebTransportNew)
    /\ WF_vars(WebTransportPollQuiet)

\* Connection level with what a step read or sent on record: the control
\* frames of a poll, the leading frame of an accepted stream, the response
\* head given to send_response. The record is
\* dropped by the next step, request streams are kept by their tasks and the
\* transport delivers at most MaxControlStreams streams.
FewStreams == next_id <= IdStep * MaxControlStreams

NoRecord ==
    /\ ctl_read' = <<>> /\ first_frame' = NoFrame /\ response' = NoResponse
    /\ stream_poll' = "unpolled" /\ signalled' = {}
    /\ UNCHANGED <<restVars, greased>>

\* The record of a step that read or sent one thing: nothing else is on it.
NoPoll == ctl_read' = <<>> /\ stream_poll' = "unpolled"

NextControl ==
    \/ AcceptCall /\ NoRecord
    \/ PollAcceptRequestRead /\ FewStreams' /\ first_frame' = NoFrame
          /\ response' = NoResponse /\ UNCHANGED <<restVars, greased>>
    \/ AcceptLoopNextRead /\ FewStreams' /\ ctl_read' = <<>> /\ first_frame' = NoFrame
          /\ response' = NoResponse /\ UNCHANGED <<restVars, greased>>
    \/ AcceptLastGoaway /\ NoRecord
    \/ AcceptLeadingFrameRead /\ NoPoll /\ response' = NoResponse
          /\ UNCHANGED restVars
    \/ AcceptSend431Read /\ NoPoll /\ first_frame' = NoFrame /\ signalled' = {}
          /\ UNCHANGED <<restVars, greased>>
    \/ \E id \in StreamIds :
          SendResponseRead(id) /\ NoPoll /\ first_frame' = NoFrame /\ signalled' = {}
          /\ UNCHANGED <<restVars, greased>>
    \/ \E k \in InFlightArgs : Shutdown(k) /\ NoRecord

SpecControl == Init /\ [][NextControl]_vars

\* The WebTransport server: handle_connection accepts requests on a connection
\* whose peer advertised any pair of settings until one of them asks for a
\* session, then runs the session loop against a peer that sends datagrams,
\* opens streams and closes when it likes.
InitSession ==
    /\ InitConnection
    /\ shared_config \in PeerConfigs
    /\ config = DefaultConfig

AcceptSteps ==
    \/ AcceptAgain
    \/ (PollAcceptRequest /\ Orderly' /\ FewStreams')
    \/ (AcceptLastGoaway /\ Orderly')
    \/ (AcceptLeadingFrame /\ Orderly' /\ pc' # "send431")

TaskSteps ==
    \/ HandleAccepted
    \/ SelectDatagram
    \/ SelectUni
    \/ SelectBi
    \/ BiWrite
    \/ ReadFails
    \/ SelectEnd

PeerSteps ==
    \/ \E tag \in SessionTags : DatagramArrives(tag)
    \/ UniArrives
    \/ \E kind \in BiKinds : BiArrives(kind)
    \/ UniRead
    \/ BiFinished
    \/ PeerCloses

NextSession ==
    \/ (app = "accepting" /\ AcceptSteps /\ UNCHANGED sideVars)
    \/ TaskSteps
    \/ PeerSteps

SpecSession == InitSession /\ [][NextSession]_vars

\* The same with the scheduling of the task: a step of the task that stays
\* possible is taken, and select! picks its branch at random, so a branch that
\* is ready again and again wins in the end. Nothing is asked of the peer.
SpecSessionFair ==
    /\ SpecSession
    /\ WF_vars(HandleAccepted)
    /\ SF_vars(SelectDatagram) /\ SF_vars(SelectUni) /\ SF_vars(SelectBi)
    /\ WF_vars(BiWrite) /\ WF_vars(ReadFails) /\ WF_vars(SelectEnd)

TypeOK ==
    /\ ongoing_streams \subseteq StreamIds
    /\ pc \in {"idle", "poll", "loop", "goaway", "frame", "send431", "wt_new", "wt_done",
               "wt_blocked"}
    /\ shared_lock \in [writer : {"none", "new"}, readers : SUBSET StreamIds, acq : 0 .. 2]
    /\ shared_config \in PeerConfigs
    /\ config \in Configs
    /\ ctl_read \in CtlBatches
    /\ app \in {"accepting", "select", "uni_read", "bi_read", "bi_write", "returned",
                 "failed", "panicked"}
    /\ session_id \in StreamIds \cup {None}
    /\ dgram_in \in UNION {[1 .. n -> SessionTags] : n \in 0 .. MaxQueue}
    /\ uni_in \in 0 .. MaxQueue
    /\ bi_in \in UNION {[1 .. n -> BiKinds] : n \in 0 .. MaxQueue}
    /\ event \in [src : {"none", "datagram", "uni", "bi", "request", "end"}, id : StreamIds \cup {None}]
    /\ send_stream \in [buf : Bufs, wire : Bufs, src : Bufs,
                         ret : {"idle", "running", "ok"} \cup SendErrors,
                         n : {None} \cup (0 .. MaxLen), odd : BOOLEAN]
    /\ conn_live \in BOOLEAN /\ logged \in 0 .. MaxStreams /\ panicked \in BOOLEAN
    /\ signalled \subseteq
           [op : {"stop_sending", "reset", "stop_stream"},
            code : {"H3_REQUEST_REJECTED", "H3_MESSAGE_ERROR"}]
    /\ stream_poll \in {"unpolled", "pending", "stream", "none", "err_closed",
                         "err_transport"}
    /\ first_frame \in LeadingFrames \cup {NoFrame}
    /\ greased \in 0 .. MaxStreams
    /\ response.res \in {"none", "ok", "too_big", "io"}
    /\ response.writes \in 0 .. 1
    /\ \A id \in StreamIds : notified[id] \in 0 .. 2

\* ------------------------------------------------------------------ claims
\* Number of times id is queued in the completion channel.
InChannel(id) == Cardinality({i \in 1 .. Len(request_end) : request_end[i] = id})

\* Streams completed so far: completion notifications sent.
Completed == SumOver(notified, StreamIds)

\* accept() has returned and has not been called again.
AtReturn == pc = "idle" /\ ret.kind # "none"

\* The step in which accept() returns.
AcceptReturns == pc # "idle" /\ pc' = "idle"

\* C1: for every request stream accept() surfaced, whatever was done with its
\* handle (finish, send_trailers, stop_stream, nothing; split or not), no
\* completion notification is sent while a handle is alive and exactly one has
\* been sent, with the stream's id, once all handles are gone: it is queued
\* once in the channel until the connection drains it.
C1_ExactlyOneNotification ==
    \A id \in StreamIds :
        st[id] \in {"surfaced", "done"} =>
            /\ notified[id] = (IF handles[id] = {} THEN 1 ELSE 0)
            /\ InChannel(id) = (IF st[id] = "surfaced" /\ handles[id] = {} THEN 1 ELSE 0)

\* A stream whose handles are all released and whose single notification is
\* queued, while a second stream is split with its stopped send half alive
\* and its receive half released.
C1_Witness ==
    \E id, other \in StreamIds :
        /\ st[id] = "surfaced" /\ handles[id] = {}
        /\ notified[id] = 1 /\ InChannel(id) = 1
        /\ st[other] = "surfaced" /\ fin[other] = "stopped" /\ handles[other] = {"send"}
        /\ notified[other] = 0

\* C2 (as stated): at every return of accept(), the size of ongoing_streams is
\* the number of streams accepted minus the number of streams completed.
C2_Original ==
    [][AcceptReturns =>
        Cardinality(ongoing_streams') = Cardinality(Admitted') - Completed']_vars

\* C2 (amended): at every point, so at every return of accept(), the size of
\* ongoing_streams is the number of streams accepted, minus the number
\* completed, plus the number of completion notifications still queued in the
\* channel (completions the connection has not drained yet).
C2_OngoingCount ==
    Cardinality(ongoing_streams) = Cardinality(Admitted) - Completed + Len(request_end)

\* accept() has returned header-too-long for stream 4 while stream 0 is live:
\* two streams accepted, stream 4 completed by accept() itself and not yet
\* drained, both in ongoing_streams.
C2_Witness ==
    /\ AtReturn /\ ret.kind = "err_toobig" /\ ret.id = 4
    /\ st[0] = "surfaced" /\ handles[0] = {"whole"}
    /\ st[4] = "failed"
    /\ Admitted = {0, 4} /\ Completed = 1
    /\ request_end = <<4>> /\ ongoing_streams = {0, 4}

C4_Boundary ==
    sent_closing # None =>
        /\ sent_closing = (IF shutdown_call[1] = None THEN FIRST_REQUEST
                           ELSE shutdown_call[1] + shutdown_call[2])
        /\ \A i \in 1 .. Len(goaway_sent) : goaway_sent[i] = sent_closing
        /\ \A id \in StreamIds : st[id] = "rejected" => id > sent_closing
        /\ (shutdown_call = <<8, 4>> /\ next_id > 16) =>
              st[12] # "rejected" /\ st[16] = "rejected"

\* The scenario: shutdown(4) at last_accepted_stream = 8 announced 12, then
\* stream 12 was surfaced and stream 16 rejected.
C4_Witness ==
    /\ shutdown_call = <<8, 4>>
    /\ sent_closing = 12
    /\ goaway_sent = <<12>>
    /\ st[12] = "surfaced"
    /\ st[16] = "rejected"
    /\ last_accepted_stream = 12

C6_EoiOnlyWhenDone ==
    (AtReturn /\ ret.kind = "eoi") =>
        /\ ongoing_streams = {}
        /\ \A id \in Surfaced : handles[id] = {}
        /\ ~(transport = "open" /\ next_id \in StreamIds /\ ~BeyondClosing(next_id))

\* C7 (as stated, its weakest part): once an accept() has returned
\* end-of-input, the next accept() does not return a request.
C7_NoRequestAfterEoi ==
    (AtReturn /\ prev_eoi) => ret.kind # "request"

\* C8 (as stated, safety form): accept() is never suspended with the transport
\* at its end, every handle released, every notification drained and a stream
\* still in ongoing_streams; from there no step can empty ongoing_streams, so
\* accept() never returns.
C8_NeverStuck ==
    ~(/\ pc = "poll"
      /\ transport = "ended"
      /\ Live = {}
      /\ request_end = <<>>
      /\ ongoing_streams # {})

\* C9 (as stated): when the leading header block is larger than
\* max_field_section_size, accept() returns header-too-long with the block's
\* size as actual and max_field_section_size as configured, actual greater,
\* and a 431 response was attempted on the stream.
C9_HeaderTooLongReported ==
    (AtReturn /\ cancel_size > max_field_section_size) =>
        /\ ret.kind = "err_toobig"
        /\ ret.actual = cancel_size
        /\ ret.configured = max_field_section_size
        /\ ret.actual > ret.configured
        /\ resp[cur] # "none"

\* C10 (as stated): when the 431 response fails to be sent, accept() still
\* returns header-too-long with the request's size and the configured size.
C10_SecondaryFailureHidden ==
    (AtReturn /\ cancel_size > 0 /\ resp[cur] \in {"io", "too_big"}) =>
        ret = RetTooBig(cur, cancel_size, max_field_section_size)

\* WebTransportSession::new has returned.
WebTransportReturned == pc = "wt_done"

\* The peer's settings lack WebTransport support or datagram support.
PeerLacksSupport ==
    ~shared_config.enable_webtransport \/ ~shared_config.enable_datagram

\* C11: whenever WebTransportSession::new has returned on a connection whose
\* peer advertised no WebTransport support or no datagram support, it has
\* failed with the connection error SETTINGS_ERROR and the connection is
\* closed with that code, whatever the local Config is.
C11_SettingsErrorWhenPeerLacks ==
    (WebTransportReturned /\ PeerLacksSupport) =>
        /\ ret = RetConnErr("H3_SETTINGS_ERROR")
        /\ closed = "H3_SETTINGS_ERROR"

\* C11, what the code does instead: no call of WebTransportSession::new ever
\* fails with SETTINGS_ERROR, because the await on poll_control only ends
\* with an error of the control stream.
C11_NeverSettingsError ==
    WebTransportReturned =>
        /\ ret.kind = "err_conn"
        /\ ret.code \in {"H3_FRAME_UNEXPECTED", "H3_ID_ERROR"}
        /\ closed = "H3_NO_ERROR"

C11_Witness ==
    /\ WebTransportReturned
    /\ PeerLacksSupport
    /\ config.enable_webtransport /\ config.enable_datagram /\ config.enable_connect
    /\ ret = RetConnErr("H3_FRAME_UNEXPECTED")

\* Settings and push frames only.
Ignored(batch) ==
    \A i \in 1 .. Len(batch) : batch[i].type \in {"settings", "max_push_id", "cancel_push"}

\* The first frame that is not a settings or push frame is not a GOAWAY either.
Unexpected(batch) ==
    \E i \in 1 .. Len(batch) :
        /\ batch[i].type \notin {"settings", "max_push_id", "cancel_push", "goaway"}
        /\ Ignored(SubSeq(batch, 1, i - 1))

\* C12: in the poll of accept() that drains the control stream, a batch of
\* settings and push frames leaves recv_closing and the connection as they
\* were and raises no control-stream error; a batch whose first other frame
\* is none of settings, GOAWAY, MAX_PUSH_ID, CANCEL_PUSH makes accept() return
\* the connection error FRAME_UNEXPECTED and closes the connection with it.
C12_ControlFrames ==
    [][pc = "poll" =>
        /\ Ignored(ctl_read') =>
              /\ recv_closing' = recv_closing
              /\ closed' = closed
              /\ sent_closing' = sent_closing
              /\ ret' \notin {RetConnErr("H3_FRAME_UNEXPECTED"), RetConnErr("H3_ID_ERROR")}
        /\ Unexpected(ctl_read') =>
              /\ pc' = "idle"
              /\ ret' = RetConnErr("H3_FRAME_UNEXPECTED")
              /\ closed' = "H3_FRAME_UNEXPECTED"
              /\ transport' = "closed"]_vars

C12_Witness ==
    /\ pc = "idle"
    /\ Len(ctl_read) = 1 /\ ctl_read[1].type = "push_promise"
    /\ ret = RetConnErr("H3_FRAME_UNEXPECTED")
    /\ closed = "H3_FRAME_UNEXPECTED"
    /\ ongoing_streams # {}

StreamErrorOn(f) ==
    \/ f.k = "err_stream"
    \/ f.k = "headers" /\ f.size <= max_field_section_size /\ f.dec = "stream"

\* C14: when reading or decoding the leading frame of the accepted stream
\* fails with a StreamError, accept() returns a stream error for that stream
\* and nothing else is touched: the connection stays open, sent_closing and
\* recv_closing keep their values, every other stream keeps its state and its
\* handles, and no stream leaves ongoing_streams.
C14_StreamErrorLocal ==
    [][(pc = "frame" /\ StreamErrorOn(first_frame')) =>
        /\ pc' = "idle"
        /\ ret'.kind = "err_stream" /\ ret'.id = cur
        /\ st'[cur] \in {"leaked", "failed"}
        /\ closed' = closed /\ closed = "open"
        /\ transport' = transport
        /\ sent_closing' = sent_closing
        /\ recv_closing' = recv_closing
        /\ ongoing_streams' = ongoing_streams
        /\ \A id \in StreamIds \ {cur} :
              st'[id] = st[id] /\ handles'[id] = handles[id] /\ fin'[id] = fin[id]]_vars

\* A later accept() has surfaced the next stream after such a failure.
C14_Witness ==
    /\ pc = "idle"
    /\ st[0] \in {"leaked", "failed"}
    /\ st[4] = "surfaced"
    /\ ret = RetRequest(4)
    /\ closed = "open"

\* C15: the connection is closed with a code only by an accept() that
\* returns that code as a fatal ConnectionError, and once it is closed every
\* accept() that returns afterwards returns end-of-input: no request and no
\* error.
C15_ClosedIsQuiet ==
    [][/\ (closed = "open" /\ closed' # "open") =>
              AcceptReturns /\ ret' = RetConnErr(closed')
       /\ (closed # "open" /\ AcceptReturns) => ret' = RetEoi]_vars

C15_Witness ==
    /\ pc = "idle"
    /\ closed = "H3_REQUEST_INCOMPLETE"
    /\ ret = RetEoi
    /\ Surfaced # {}

\* C16: over the whole life of a connection at most one RequestStream is
\* built with the grease flag set.
C16_GreaseAtMostOnce == greased <= 1

\* C16, the part the code keeps: send_grease_frame, once cleared, stays
\* cleared, and it is cleared by the first accept() that returns a request.
C16_FlagNeverSetAgain ==
    [][/\ ~send_grease_frame => ~send_grease_frame'
       /\ (AcceptReturns /\ ret'.kind = "request") => ~send_grease_frame']_vars

\* The second RequestStream built with the flag set.
C16_Witness ==
    /\ greased = 2
    /\ send_grease_frame
    /\ st[0] = "done"
    /\ ret = RetStreamErr(4, "H3_MESSAGE_ERROR")

\* C17: a step that sets the shutdown boundary (shutdown(k), or the
\* shutdown(0) of accept()) changes neither ongoing_streams nor
\* last_accepted_stream nor the state, the handles or the queued completions
\* of any stream; and a stream is only ever rejected when it arrives, not yet
\* accepted, with an id above the boundary set before.
C17_ShutdownKeepsInFlight ==
    [][/\ sent_closing' # sent_closing =>
             /\ ongoing_streams' = ongoing_streams
             /\ last_accepted_stream' = last_accepted_stream
             /\ st' = st /\ handles' = handles /\ fin' = fin
             /\ request_end' = request_end
       /\ \A id \in StreamIds :
             (st[id] # "rejected" /\ st'[id] = "rejected") =>
                 /\ st[id] = "idle"
                 /\ sent_closing # None /\ id > sent_closing]_vars

\* shutdown(4) was called while stream 0 was in flight: stream 0 is still
\* held by its task, stream 4 was let in and stream 8 was rejected.
C17_Witness ==
    /\ shutdown_call = <<0, 4>>
    /\ sent_closing = 4
    /\ st[0] = "surfaced" /\ handles[0] # {} /\ 0 \in ongoing_streams
    /\ st[4] \notin {"idle", "rejected"}
    /\ st[8] = "rejected"

C19_OngoingMirrorsHandles ==
    [][AcceptReturns =>
          \A id \in StreamIds :
              (id \in ongoing_streams') <=>
                  (handles'[id] # {} \/ id \in Range(request_end'))]_vars

\* C19, the direction the code keeps: a stream with a live handle or a queued
\* completion notification is in ongoing_streams.
C19_HandlesAreOngoing ==
    \A id \in StreamIds :
        (handles[id] # {} \/ InChannel(id) > 0) => id \in ongoing_streams

\* accept() returned the stream error of stream 0: the id is in
\* ongoing_streams, no handle was ever built and nothing is queued.
C19_Witness ==
    /\ AtReturn
    /\ ret = RetStreamErr(0, "H3_REQUEST_CANCELLED")
    /\ 0 \in ongoing_streams
    /\ handles[0] = {}
    /\ request_end = <<>>
    /\ closed = "open"

\* C20: a call of send_response whose encoded head is larger than the
\* configured maximum fails with the error that carries the actual and the
\* configured size and hands no frame to the stream; a call whose head is
\* within the maximum hands exactly one header frame to the stream and never
\* fails for its size.
C20_SendResponseLimit ==
    response.res # "none" =>
        /\ response.mem_size > response.max_mem_size =>
              /\ response.res = "too_big"
              /\ response.actual = response.mem_size
              /\ response.configured = response.max_mem_size
              /\ response.writes = 0
        /\ response.mem_size <= response.max_mem_size =>
              /\ response.res \in {"ok", "io"}
              /\ response.writes = 1

\* The task holding stream 0 sent a head of 17 against a maximum of 16.
C20_Witness ==
    /\ response.id = 0 /\ st[0] = "surfaced" /\ ret = RetRequest(0)
    /\ response.mem_size = 17 /\ response.max_mem_size = 16
    /\ response.res = "too_big"
    /\ response.writes = 0

\* The two halves split() made of the handle of stream id are both alive.
BothHalves(id) == handles[id] = {"send", "recv"}

\* One half of stream id is alive, the other was released.
OneHalf(id) == handles[id] \in {{"send"}, {"recv"}}

\* C24: while a half of a split stream is alive its id is in ongoing_streams
\* and no notification has been sent; releasing the first half, whichever it
\* is, sends none; releasing the second half sends the one notification of
\* the stream, with its id.
C24_SplitSharesCompletion ==
    [][\A id \in StreamIds :
          /\ (BothHalves(id) \/ OneHalf(id)) =>
                 id \in ongoing_streams /\ notified[id] = 0 /\ InChannel(id) = 0
          /\ (BothHalves(id) /\ handles'[id] # handles[id]) =>
                 /\ OneHalf(id)'
                 /\ notified'[id] = 0
                 /\ request_end' = request_end
                 /\ id \in ongoing_streams'
          /\ (OneHalf(id) /\ handles'[id] # handles[id]) =>
                 /\ handles'[id] = {}
                 /\ notified'[id] = 1
                 /\ request_end' = Append(request_end, id)]_vars

\* The send half of stream 0 was released first, the receive half of stream
\* 4 was released first; both streams are still ongoing and unnotified.
C24_Witness ==
    /\ handles[0] = {"recv"} /\ handles[4] = {"send"}
    /\ {0, 4} \subseteq ongoing_streams
    /\ notified[0] = 0 /\ notified[4] = 0
    /\ request_end = <<>>

\* The step in which inner.poll_accept_request fails on the transport.
StreamPollFails ==
    pc \in {"poll", "loop"} /\ stream_poll' \in {"err_closed", "err_transport"}

\* Streams accept() is working on or has handed to its caller.
InAccept == {id \in StreamIds : st[id] \in {"accepting", "surfaced"}}

\* What accept() returns on a failed request for the next stream, and what it
\* leaves alone whatever the error is.
FailedPollReturn ==
    /\ pc' = "idle"
    /\ stream_poll' = "err_closed" => ret' = RetEoi
    /\ stream_poll' = "err_transport" => ret' = RetConnErr("transport")
    /\ InAccept' \subseteq InAccept
    /\ last_accepted_stream' = last_accepted_stream

\* C25 as stated: when the request for the next incoming stream fails on the
\* transport, accept() returns end-of-input for an already closed connection
\* and the error as a connection error otherwise, no request is surfaced, and
\* ongoing_streams and last_accepted_stream are as they were when accept()
\* was polled.
C25_Original ==
    [][StreamPollFails => FailedPollReturn /\ ongoing_streams' = ongoing_streams]_vars

\* C25: when the request for the next incoming stream fails on the transport,
\* accept() returns end-of-input for an already closed connection and the
\* error as a connection error otherwise, no request is surfaced,
\* last_accepted_stream is unchanged and no stream is added to
\* ongoing_streams: the set loses exactly the streams whose completion was
\* queued when poll_accept_request started, which the drain before the
\* request removes.
C25_FailedPoll ==
    [][StreamPollFails =>
          /\ FailedPollReturn
          /\ ongoing_streams' =
                 ongoing_streams \ (IF pc = "poll" THEN Range(request_end) ELSE {})
          /\ request_end' = <<>>]_vars

\* C25 happens: the request for the next stream failed after the drain had
\* removed a completed stream, and the error came back from accept().
C25_Witness ==
    /\ stream_poll = "err_transport" /\ ret = RetConnErr("transport")
    /\ st[0] = "done" /\ last_accepted_stream = 0 /\ ongoing_streams = {}
\* The step in which poll_accept_request gets a stream beyond sent_closing.
RejectsStream ==
    pc \in {"poll", "loop"} /\ stream_poll' = "stream" /\ BeyondClosing(next_id)

\* C26: a stream that arrives with an id beyond sent_closing is told to stop
\* sending and is reset, both with H3_REQUEST_REJECTED; it is not surfaced and
\* not added to ongoing_streams, and last_accepted_stream stays as it was; the
\* completions queued are then drained to see whether the connection is idle,
\* and unless it is the loop asks for the next incoming stream.
C26_Rejection ==
    [][RejectsStream =>
          /\ signalled' = {[op |-> "stop_sending", code |-> "H3_REQUEST_REJECTED"],
                           [op |-> "reset", code |-> "H3_REQUEST_REJECTED"]}
          /\ st'[next_id] = "rejected" /\ next_id \notin ongoing_streams'
          /\ ongoing_streams' = ongoing_streams \ Range(request_end)
          /\ last_accepted_stream' = last_accepted_stream
          /\ ret' = ret /\ cur' = cur
          /\ pc' = IF ongoing_streams' = {} THEN "goaway" ELSE "loop"
          /\ next_id' = next_id + IdStep]_vars

\* C26 happens: stream 4 arrived beyond the boundary 0 while stream 0 was
\* in flight, was rejected, and the loop is about to ask for the next stream.
C26_Witness ==
    /\ pc = "loop" /\ sent_closing = 0 /\ st[4] = "rejected" /\ signalled = Rejection
    /\ ongoing_streams = {0} /\ last_accepted_stream = 0
\* The poll of accept() that read exactly the control frame GOAWAY(g).
ReadsGoaway(g) ==
    pc = "poll" /\ ctl_read' = <<[type |-> "goaway", id |-> g]>>

\* C27: a GOAWAY frame on the control stream is recorded in recv_closing, and
\* once recv_closing is set it never increases: a GOAWAY with a greater
\* boundary than the one recorded makes accept() fail with the connection
\* error H3_ID_ERROR, closes the connection and leaves recv_closing as it was.
C27_RecvClosingNeverIncreases ==
    [][/\ recv_closing # None =>
              recv_closing' # None /\ recv_closing' <= recv_closing
       /\ \A g \in GoawayIds :
              ReadsGoaway(g) =>
                  IF recv_closing # None /\ g > recv_closing
                  THEN /\ recv_closing' = recv_closing
                       /\ pc' = "idle" /\ ret' = RetConnErr("H3_ID_ERROR")
                       /\ closed' = "H3_ID_ERROR"
                  ELSE /\ recv_closing' = g
                       /\ ret'.kind = "err_conn" => ret'.code # "H3_ID_ERROR"]_vars

\* C27 happens: the peer lowered the boundary to 0 and then sent GOAWAY(4),
\* which accept() refused.
C27_Witness ==
    /\ recv_closing = 0 /\ ctl_read = <<[type |-> "goaway", id |-> 4]>>
    /\ pc = "idle" /\ ret = RetConnErr("H3_ID_ERROR") /\ closed = "H3_ID_ERROR"
\* C28: when the header block decodes and method, target and headers cannot
\* be extracted from it, accept() stops that stream with the code of the
\* error, H3_MESSAGE_ERROR, releases it, and returns a stream error for that
\* stream; the connection stays open and send_grease_frame keeps its value.
C28_MalformedRequest ==
    [][(pc = "frame" /\ Malformed(first_frame')) =>
          /\ signalled' = {[op |-> "stop_stream", code |-> "H3_MESSAGE_ERROR"]}
          /\ pc' = "idle" /\ ret' = RetStreamErr(cur, "H3_MESSAGE_ERROR")
          /\ st'[cur] = "failed" /\ handles'[cur] = {}
          /\ closed = "open" /\ closed' = closed /\ transport' = transport
          /\ send_grease_frame' = send_grease_frame]_vars

\* C28 happens: the first request of the connection was malformed, accept()
\* returned its stream error, and the grease frame is still to be sent.
C28_Witness ==
    /\ Malformed(first_frame) /\ pc = "idle" /\ ret = RetStreamErr(0, "H3_MESSAGE_ERROR")
    /\ st[0] = "failed" /\ closed = "open" /\ send_grease_frame
\* Streams whose last handle a step released.
Released == {id \in StreamIds : handles[id] # {} /\ handles'[id] = {}}

\* C29: dropping the Connection while request streams are in flight calls
\* close with H3_NO_ERROR and is done in that step, whatever is ongoing: no
\* handle, no stream and no result of accept() is touched. Releasing the last
\* handle of a stream after that writes one line to the log and nothing else:
\* nothing is queued, nothing is returned to anyone. No drop panics.
C29_BestEffortCleanup ==
    [][/\ ~panicked'
       /\ (conn_live /\ ~conn_live') =>
              /\ closed' = "H3_NO_ERROR" /\ transport' = "closed"
              /\ handles' = handles /\ st' = st /\ ongoing_streams' = ongoing_streams
              /\ ret' = ret /\ pc' = pc /\ logged' = logged
       /\ (~conn_live /\ handles' # handles) =>
              /\ logged' = logged + Cardinality(Released)
              /\ request_end' = request_end /\ notified' = notified
              /\ closed' = closed /\ ret' = ret /\ pc' = pc /\ st' = st
       /\ (conn_live /\ conn_live') => logged' = logged]_vars

\* C29 happens: the Connection was dropped with streams 0 and 4 in flight,
\* then the task of stream 0 released its handle and stream 4 is still held.
C29_Witness ==
    /\ ~conn_live /\ closed = "H3_NO_ERROR" /\ ongoing_streams = {0, 4}
    /\ handles[0] = {} /\ handles[4] # {} /\ logged = 1 /\ notified[0] = 0
\* C21: a connection has at most one WebTransport session. The session is
\* established by a surfaced request and takes the id of that request's
\* stream; establishing it takes the Connection from handle_connection, so
\* from then on no accept() runs or is called, no request is surfaced, and
\* the session id never changes: a CONNECT request arriving in the session is
\* not made a second session.
C21_OneSession ==
    [][/\ (session_id = None /\ session_id' # None) =>
              /\ app = "accepting" /\ pc = "idle" /\ conn_live
              /\ ret = RetRequest(session_id') /\ st[session_id'] = "surfaced"
              /\ app' = "select"
       /\ session_id # None => session_id' = session_id
       /\ app # "accepting" =>
              /\ app' # "accepting"
              /\ pc' = pc /\ ret' = ret /\ st' = st
              /\ ongoing_streams' = ongoing_streams
              /\ last_accepted_stream' = last_accepted_stream]_vars

\* C21 happens: the session was established by the request on stream 4, and
\* a later CONNECT request on the same connection was not made a session.
C21_Witness ==
    /\ session_id = 4 /\ app = "select" /\ event.src = "request"
    /\ ret = RetRequest(4) /\ pc = "idle"
\* The step in which the session reads the datagram at the head of the queue.
ReadsDatagram == app = "select" /\ dgram_in # <<>> /\ dgram_in' = Tail(dgram_in)

\* C22: in an established session a datagram read from the connection is
\* handed to the application exactly when the session id in front of it is
\* the id of the session; a datagram with another id is taken off the
\* connection and handed to nobody, and whatever the application is handed
\* as a datagram carries the id of the session.
C22_DatagramOfSession ==
    [][/\ ReadsDatagram =>
              /\ session_id # None
              /\ IF Head(dgram_in) = session_id
                 THEN event' = [src |-> "datagram", id |-> session_id]
                 ELSE event' = NoEvent /\ app' = app
       /\ event'.src = "datagram" => event'.id = session_id']_vars

\* C22 happens: in the session of stream 4 a datagram of session 4 was handed
\* on, and a datagram of session 0 is the next to be read.
C22_Witness ==
    /\ session_id = 4 /\ app = "select"
    /\ event = [src |-> "datagram", id |-> 4] /\ dgram_in = <<0>>
\* An event of the session is waiting on a source and the loop has not just
\* been handed one of that source.
DatagramWaiting ==
    /\ InSession /\ dgram_in # <<>> /\ Head(dgram_in) = session_id
    /\ event.src # "datagram"
UniWaiting == InSession /\ uni_in > 0 /\ event.src # "uni"
BiWaiting == InSession /\ bi_in # <<>> /\ Head(bi_in) = "stream" /\ event.src # "bi"

\* Nothing is left on any source and the connection is closed.
Exhausted ==
    /\ app = "select" /\ transport = "closed"
    /\ dgram_in = <<>> /\ uni_in = 0 /\ bi_in = <<>>

\* C23: in an established session an event waiting on one of the three
\* sources (a datagram of the session, a unidirectional stream, a
\* bidirectional stream) is handed to the loop in the end, whatever arrives
\* on the other two, unless the task ends first; and once nothing is left on
\* any source and the connection is closed, the wait of the loop ends with
\* the signal that nothing more will arrive.
C23_RacedFairly ==
    /\ DatagramWaiting ~> (event.src = "datagram" \/ ~InSession)
    /\ UniWaiting ~> (event.src = "uni" \/ ~InSession)
    /\ BiWaiting ~> (event.src = "bi" \/ ~InSession)
    /\ Exhausted ~> (event.src = "end")

\* C23, as far as it holds: when the peer goes on to send on every stream the
\* loop has taken, so that each handler comes to its end, every waiting
\* event is handed to the loop and the exhausted, closed connection ends the
\* wait.
C23_RacedFairlyWhenFed ==
    (WF_vars(BiFinished) /\ WF_vars(UniRead)) => C23_RacedFairly

\* C23 fails here: the loop took a bidirectional stream and is reading it to
\* its end while a datagram of the session waits.
C23_Witness ==
    /\ app = "bi_read" /\ transport = "open"
    /\ dgram_in # <<>> /\ Head(dgram_in) = session_id /\ event.src = "bi"

\* write_all has returned Ok(()).
WriteAllOk == send_stream.ret = "ok"

\* write_all has returned an error.
WriteAllFailed == send_stream.ret \in SendErrors

\* Every write so far accepted at least one byte.
EveryWriteTakes == send_stream.n # 0

\* What the transport was handed, followed by what is left in the buffer, is
\* the buffer write_all was given: bytes go out in order, each once.
InOrderOnce == send_stream.wire \o send_stream.buf = send_stream.src

\* C31: write_all returns Ok only after every byte of the buffer has been
\* handed to the transport, in order and each byte once, for any sequence
\* of partial-write counts; the first error of the transport ends it: it
\* returns that error and hands over nothing more; and a call all of whose
\* writes accept at least one byte returns.
C31_WriteAll ==
    /\ [](InOrderOnce /\ (WriteAllOk => send_stream.wire = send_stream.src))
    /\ [][(WriteAllOk \/ WriteAllFailed) => send_stream' = send_stream]_vars
    /\ [][\A e \in SendErrors : WriteErr(e) => send_stream'.ret = e]_vars
    /\ ([]EveryWriteTakes => (send_stream.ret = "running" ~> send_stream.ret # "running"))

\* write_all returned Ok for a buffer of three bytes that the transport took
\* in more than one write, the last of them of one byte.
C31_Witness ==
    /\ WriteAllOk /\ Len(send_stream.src) = MaxLen /\ send_stream.n = 1
    /\ send_stream.wire = send_stream.src

\* The step in which poll_accept_request runs its completion drain: a poll
\* from its start (not the release of a handle by another task meanwhile)
\* that poll_control did not fail.
DrainRuns == pc = "poll" /\ handles' = handles /\ closed' = closed

\* Streams accept() admitted and then returned without surfacing, on an
\* error of the stream that leaves the connection in use: a stream-level
\* error of the read of the leading frame ("leaked"), a header block too
\* long, a stream-level decode error or a malformed request ("failed").
NotSurfaced == {id \in StreamIds : st[id] \in {"failed", "leaked"}}

\* C32 (as stated): a stream accept() admitted and returned without
\* surfacing, whichever of these errors made it fail, is removed from
\* ongoing_streams by the next completion drain.
C32_FailedAcceptDrained ==
    [][DrainRuns => \A id \in NotSurfaced : id \notin ongoing_streams']_vars

\* C32, as far as it holds: a stream whose accept() failed after the
\* RequestStream was built (header too long, decode error, malformed
\* request) has its completion queued when accept() returns, and the next
\* completion drain removes it from ongoing_streams.
C32_BuiltThenDrained ==
    [][DrainRuns =>
          \A id \in NotSurfaced : notified[id] > 0 => id \notin ongoing_streams']_vars

\* No request was ever surfaced (the grease flag is still set), stream 0 was
\* admitted, failed after its RequestStream was built, and the drain of a
\* later accept() removed it.
C32_Witness ==
    /\ send_grease_frame /\ st[0] = "done" /\ notified[0] = 1
    /\ 0 \notin ongoing_streams /\ request_end = <<>>

\* WebTransportSession::new is suspended in its await on poll_control.
NewSuspended == pc = "wt_new"

\* C33 (as stated): a call of WebTransportSession::new completes: once the
\* control stream has nothing further, the initial drain finishes and the
\* call returns, with a session or an error.
C33_NewCompletes == NewSuspended ~> WebTransportReturned

\* C33, what the code does: the call returns only in a poll that the control
\* stream fails, and then with that connection error; a poll that finds the
\* control stream quiet leaves the call suspended.
C33_ReturnsOnlyOnControlError ==
    /\ [](NewSuspended => ~ENABLED <<WebTransportPollQuiet>>_vars)
    /\ [][(NewSuspended /\ WebTransportReturned') =>
             /\ ret'.kind = "err_conn"
             /\ ret'.code \in {"H3_FRAME_UNEXPECTED", "H3_ID_ERROR"}]_vars

\* The call is suspended on a connection whose peer advertised WebTransport
\* and datagrams and whose control stream has delivered a GOAWAY.
C33_Witness ==
    /\ NewSuspended /\ recv_closing # None /\ closed = "open"
    /\ shared_config.enable_webtransport /\ shared_config.enable_datagram

\* The task of WebTransportSession::new waits for a lock it holds itself.
Reentered == pc = "wt_blocked"

====
